---- MODULE Spec2Model ----
(***************************************************************************)
(* Weather ETL utilities: the chunked bulk-insert writer of the pandas     *)
(* loaders (load_to_snowflake_pandas.py, load_to_mysql_pandas.py) and the  *)
(* flatten engine (the pandas normalizers and the SQL-text generator of    *)
(* load_to_snowflake.py).                                                  *)
(*                                                                         *)
(* The specifications of the module:                                      *)
(*   Spec         the writer: one loader object issuing load calls on one  *)
(*                table over one connection;                               *)
(*   SpecFlatten  the flatten engine applied to a bounded family of        *)
(*                source documents;                                        *)
(*   SpecSql      a text value embedded in a generated INSERT statement;   *)
(*   SpecRead     the enumeration of the source documents of a listing;    *)
(*   SpecList     the paginated S3 listing;                                *)
(*   SpecRun      WeatherDataLoader.run under its two callers;             *)
(*   SpecFetch    the task fetch_weather_task of the DAG;                  *)
(*   SpecRunList  run() driven by the listing it makes;                    *)
(*   SpecDag      the two tasks of the DAG under the scheduler;            *)
(*   SpecConfig   update_bucket_config on aws_config.json.                 *)
(***************************************************************************)
EXTENDS Integers, Sequences, FiniteSets, TLC

VARIABLES
    \* ---- writer ----
    loader,      \* "snowflake" | "mysql": which WeatherDataLoader class
    target,      \* "raw" | "normalized": which load_dataframe_to_*_table
    df,          \* the DataFrame handed to the load function: a sequence of rows
    batch_size,  \* SNOWFLAKE_BATCH_SIZE / MYSQL_BATCH_SIZE (5000 in the source)
    table,       \* committed rows of the target table, in insertion order
    pending,     \* rows inserted in the connection's open transaction
    pc,          \* position inside the load call
    i,           \* the loop variable of range(0, total_records, BATCH_SIZE)
    calls,       \* insert calls issued by the current load call, in issue order
    commits,     \* conn.commit() calls of the current load call
    rollbacks,   \* conn.rollback() calls of the current load call
    ret,         \* return value of the current load call: "none" until it returns
    rets,        \* return values of the completed load calls, oldest first
    table0,      \* the table before the first load call
    callStart,   \* the table when the current load call began
    \* ---- flatten engine ----
    batch,       \* the source documents of one read, in listing order
    op,          \* the function applied to the batch: "none" before any
    result,      \* what it produced: [raised, rows]
    \* ---- SQL text ----
    sqlVal,      \* a text value of a document: a sequence of characters
    sqlFn,       \* the function that embedded it in a statement: "none" before
    sqlCol,      \* the column it was embedded for
    sqlLit,      \* the literal as it stands in the statement, delimiters included
    \* ---- source enumeration ----
    reader,          \* "pandas" (read_json_files_pandas) | "generator" (read_json_files)
    json_files,      \* the listing: S3 keys / globbed paths, in listing order
    json_batch_size, \* JSON_BATCH_SIZE (10000 in the source)
    readPos,         \* items of the listing visited so far
    batch_data,      \* frames of the batch being read
    all_dataframes,  \* the concatenated frames of the finished batches
    attempts,        \* every item visited with its outcome, in visiting order
    printed,         \* the items for which a reason was printed
    readOut,         \* what the read returned: the documents' keys, in order
    readPc,          \* "idle" | "loop" | "done"
    \* ---- S3 listing ----
    s3_pages,           \* the store's answer: the pages of the listing, in order
    continuation_token, \* 0 for None, else the token of the page to ask for
    requests,           \* the ContinuationToken of every request made (0: none)
    listed,             \* json_files of list_s3_json_files
    listPc,             \* "loop" | "done" (returned) | "failed" (returned [] from except)
    \* ---- WeatherDataLoader.run and its callers ----
    caller,           \* "main" (the script) | "task" (load_to_snowflake_task)
    load_raw,         \* run()'s arguments
    load_normalized,
    aws_file,         \* aws_config.json: [state, aws], aws the fields of its "aws" section
    sf_file,          \* snowflake_config.json: [state, snowflake]
    environ,          \* the six SNOWFLAKE_* environment variables
    runPc,            \* position in run(): "start" ... "returned" | "raised" | "exited"
    aws_config,       \* "unloaded" | "None" | "loaded"
    s3_client,        \* TRUE once boto3.client(...) has been created
    source,           \* how the read of the source went: "none" before
    credentials,      \* "unset" | "None" | "file" | "env"
    account,          \* credentials['account'], as its sequence of characters
    connect_attempts, \* snowflake.connect calls made
    conn,             \* "none" | "open" | "closed"
    conn_account,     \* the account identifier self.conn was made with ("none": no self.conn)
    success,          \* the local variable of run()
    loads,            \* the table loads made, with their return values
    raised,           \* TRUE when a normalization step raised inside the try
    report,           \* "none" | "success" | "no_data_loaded": the line run() printed
    closes,           \* close_connection calls
    outcome,          \* "none" | "exit_0" | "exit_1" | "task_success" | "task_failed"
    \* ---- fetch_weather_task ----
    cities,         \* cities_data['cities']
    fetch_setup,    \* [api_key, cities_file, aws]: what the task finds before the loop
    fetchPos,       \* cities visited so far
    fetched,        \* every city visited with its outcome, in visiting order
    successful,     \* the task's counters
    failed,
    s3_keys,        \* the keys saved
    fetchPc,        \* "start" | "loop" | "returned" | "raised"
    \* ---- the DAG weather_data_pipeline ----
    dag_runs,       \* per DAG run, the state and try count of its two task instances
    \* ---- update_bucket_config ----
    config_file,    \* aws_config.json: "missing", "invalid" or the parsed JSON
    config_args,    \* [bucket_name, s3_prefix, region] of the call; "None" for None
    config_before,  \* the file when the call began
    config_ret      \* "none" before the call returns, then "True" | "False"

writerVars == <<loader, target, df, batch_size, table, pending, pc, i, calls,
                commits, rollbacks, ret, rets, table0, callStart>>
flattenVars == <<batch, op, result>>
sqlVars == <<sqlVal, sqlFn, sqlCol, sqlLit>>
readVars == <<reader, json_files, json_batch_size, readPos, batch_data,
              all_dataframes, attempts, printed, readOut, readPc>>
listVars == <<s3_pages, continuation_token, requests, listed, listPc>>
runVars == <<caller, load_raw, load_normalized, aws_file, sf_file, environ, runPc,
             aws_config, s3_client, source, credentials, account,
             connect_attempts, conn, conn_account, success, loads, raised, report, closes, outcome>>
fetchVars == <<cities, fetch_setup, fetchPos, fetched, successful, failed, s3_keys,
               fetchPc>>
dagVars == <<dag_runs>>
configVars == <<config_file, config_args, config_before, config_ret>>
vars == <<writerVars, flattenVars, sqlVars, readVars, listVars, runVars, fetchVars,
          dagVars, configVars>>

\* what the writer's steps and the flatten engine's steps leave alone
outsideWriter == <<flattenVars, sqlVars, readVars, listVars, runVars, fetchVars,
                  dagVars, configVars>>
outsideFlatten == <<writerVars, sqlVars, readVars, listVars, runVars, fetchVars,
                  dagVars, configVars>>
outsideSql == <<writerVars, flattenVars, readVars, listVars, runVars, fetchVars,
                  dagVars, configVars>>
outsideRead == <<writerVars, flattenVars, sqlVars, listVars, runVars, fetchVars,
                  dagVars, configVars>>
outsideList == <<writerVars, flattenVars, sqlVars, readVars, runVars, fetchVars,
                  dagVars, configVars>>
outsideRun == <<writerVars, flattenVars, sqlVars, readVars, listVars, fetchVars,
                  dagVars, configVars>>
outsideFetch == <<writerVars, flattenVars, sqlVars, readVars, listVars, runVars,
                  dagVars, configVars>>
outsideDag == <<writerVars, flattenVars, sqlVars, readVars, listVars, runVars,
                fetchVars, configVars>>
outsideConfig == <<writerVars, flattenVars, sqlVars, readVars, listVars, runVars,
                   fetchVars, dagVars>>

-----------------------------------------------------------------------------
(* Bounds of the writer model.  The source's batch size is 5000; the model *)
(* draws it from 1..MaxBatch, so 12 rows with batch size 5 stand for the   *)
(* 12000 / 5000 scenario.                                                  *)
MaxRows == 12
MaxBatch == 5
MaxRuns == 2

\* conn.commit() is called inside the loop when (i // BATCH_SIZE) % 10 == 0
CommitEvery == 10

Min(a, b) == IF a < b THEN a ELSE b

CeilDiv(n, d) == (n + d - 1) \div d

\* range(1..n) as the rows of a DataFrame: row r is the r-th source document
RowsUpTo(n) == [r \in 1..n |-> r]

\* df.iloc[i:i + BATCH_SIZE - 1]: a slice one row short
ChunkShort(frame, off, size) == SubSeq(frame, off + 1, Min(off + size - 1, Len(frame)))

\* df.iloc[i:i + BATCH_SIZE]
Chunk(frame, off, size) == SubSeq(frame, off + 1, Min(off + size, Len(frame)))

\* INSERT INTO <table> ... VALUES (...), (...): a plain append, mutated below
InsertRowsDedup(tbl, rows) ==
    tbl \o SelectSeq(rows, LAMBDA r : \A j \in 1..Len(tbl) : tbl[j] # r)

InsertRows(tbl, rows) == tbl \o rows

\* a commit after every tenth chunk instead of after chunks 0, 10, 20, ...
CommitDueAfterTenth(off, size) == (off \div size) % CommitEvery = CommitEvery - 1

\* a commit after every chunk
CommitDueEveryChunk(off, size) == TRUE

\* no commit inside the loop
CommitDueNever(off, size) == FALSE

\* (i // self.SNOWFLAKE_BATCH_SIZE) % 10 == 0
CommitDue(off, size) == (off \div size) % CommitEvery = 0

-----------------------------------------------------------------------------
NoResult == [raised |-> FALSE, rows |-> <<>>]

FlattenIdle == batch = <<>> /\ op = "none" /\ result = NoResult

SqlIdle == sqlVal = <<>> /\ sqlFn = "none" /\ sqlCol = "none" /\ sqlLit = <<>>

ReadIdle ==
    /\ reader = "pandas"
    /\ json_files = <<>>
    /\ json_batch_size = 1
    /\ readPos = 0
    /\ batch_data = <<>>
    /\ all_dataframes = <<>>
    /\ attempts = <<>>
    /\ printed = <<>>
    /\ readOut = <<>>
    /\ readPc = "idle"

ListIdle ==
    /\ s3_pages = <<>>
    /\ continuation_token = 0
    /\ requests = <<>>
    /\ listed = <<>>
    /\ listPc = "done"

AwsFields == {"access_key_id", "secret_access_key", "bucket_name"}

SnowflakeFields == {"account", "user", "password", "warehouse", "database", "schema"}

\* a configuration in which every field has a value
AllSet(fields) == [f \in fields |-> "set"]

\* run() has not been entered
RunFresh ==
    /\ runPc = "start"
    /\ aws_config = "unloaded"
    /\ s3_client = FALSE
    /\ source = "none"
    /\ credentials = "unset"
    /\ connect_attempts = 0
    /\ conn = "none"
    /\ conn_account = "none"
    /\ success = FALSE
    /\ loads = <<>>
    /\ raised = FALSE
    /\ report = "none"
    /\ closes = 0
    /\ outcome = "none"

RunIdle ==
    /\ caller = "main"
    /\ load_raw = TRUE
    /\ load_normalized = TRUE
    /\ aws_file = [state |-> "ok", aws |-> AllSet(AwsFields)]
    /\ sf_file = [state |-> "ok", snowflake |-> AllSet(SnowflakeFields)]
    /\ environ = AllSet(SnowflakeFields)
    /\ account = <<"xy12345">>
    /\ RunFresh

\* the task has not been entered
FetchFresh ==
    /\ fetchPos = 0
    /\ fetched = <<>>
    /\ successful = 0
    /\ failed = 0
    /\ s3_keys = <<>>
    /\ fetchPc = "start"

FetchIdle ==
    /\ cities = <<>>
    /\ fetch_setup = [api_key |-> TRUE, cities_file |-> TRUE, aws |-> TRUE]
    /\ FetchFresh

DagIdle == dag_runs = <<>>

AwsKeys == {"access_key_id", "secret_access_key", "bucket_name", "s3_prefix", "region"}

NoKeys == [k \in AwsKeys |-> "absent"]

NoConfig == [kind |-> "null", aws |-> [kind |-> "absent", keys |-> NoKeys],
             snowflake |-> "absent"]

MissingFile == [state |-> "missing", form |-> "none", config |-> NoConfig]

ConfigIdle ==
    /\ config_file = MissingFile
    /\ config_args = [bucket_name |-> "new-bucket", s3_prefix |-> "None", region |-> "None"]
    /\ config_before = MissingFile
    /\ config_ret = "none"

Init ==
    /\ loader \in {"snowflake", "mysql"}
    /\ target \in {"raw", "normalized"}
    /\ \E n \in 0..MaxRows : df = RowsUpTo(n)
    /\ batch_size \in 1..MaxBatch
    /\ table0 \in {<<>>, <<0>>}
    /\ table = table0
    /\ callStart = table0
    /\ pending = <<>>
    /\ pc = "idle"
    /\ i = 0
    /\ calls = <<>>
    /\ commits = 0
    /\ rollbacks = 0
    /\ ret = "none"
    /\ rets = <<>>
    /\ FlattenIdle
    /\ SqlIdle
    /\ ReadIdle
    /\ ListIdle
    /\ RunIdle
    /\ FetchIdle
    /\ DagIdle
    /\ ConfigIdle

\* Entry of load_dataframe_to_raw_table / load_dataframe_to_normalized_table:
\* an empty frame returns False at once; otherwise the loop is entered (the raw
\* loader first reads SELECT COUNT(*), which changes nothing).
BeginLoad ==
    /\ pc \in {"idle", "done"}
    /\ Len(rets) < MaxRuns
    /\ i' = 0
    /\ calls' = <<>>
    /\ commits' = 0
    /\ rollbacks' = 0
    /\ callStart' = table
    /\ IF Len(df) = 0
         THEN /\ pc' = "done"
              /\ ret' = "false"
              /\ rets' = Append(rets, "false")
         ELSE /\ pc' = "loop"
              /\ ret' = "none"
              /\ rets' = rets
    /\ UNCHANGED <<loader, target, df, batch_size, table, pending, table0>>
    /\ UNCHANGED outsideWriter

\* One cursor.execute(insert_sql) of the Snowflake loop: the statement either
\* inserts the chunk into the open transaction or raises.
SnowflakeExecute ==
    /\ loader = "snowflake"
    /\ pc = "loop"
    /\ \E ok \in BOOLEAN :
         /\ calls' = Append(calls, [off |-> i, rows |-> Chunk(df, i, batch_size), ok |-> ok])
         /\ IF ok
              THEN /\ pending' = InsertRows(pending, Chunk(df, i, batch_size))
                   /\ pc' = "commit"
              ELSE /\ pending' = pending
                   /\ pc' = "except"
    /\ UNCHANGED <<loader, target, df, batch_size, table, i, commits, rollbacks,
                   ret, rets, table0, callStart>>
    /\ UNCHANGED outsideWriter

\* The periodic commit that ends a loop iteration, and the loop's advance.
SnowflakeCommitCheck ==
    /\ loader = "snowflake"
    /\ pc = "commit"
    /\ IF CommitDue(i, batch_size)
         THEN /\ table' = table \o pending
              /\ pending' = <<>>
              /\ commits' = commits + 1
         ELSE UNCHANGED <<table, pending, commits>>
    /\ i' = i + batch_size
    /\ pc' = IF i + batch_size < Len(df) THEN "loop" ELSE "final"
    /\ UNCHANGED <<loader, target, df, batch_size, calls, rollbacks, ret, rets,
                   table0, callStart>>
    /\ UNCHANGED outsideWriter

\* self.conn.commit() after the loop, then return True.
SnowflakeFinalCommit ==
    /\ loader = "snowflake"
    /\ pc = "final"
    /\ table' = table \o pending
    /\ pending' = <<>>
    /\ commits' = commits + 1
    /\ ret' = "true"
    /\ rets' = Append(rets, "true")
    /\ pc' = "done"
    /\ UNCHANGED <<loader, target, df, batch_size, i, calls, rollbacks, table0,
                   callStart>>
    /\ UNCHANGED outsideWriter

\* an except clause that rolls back and goes on with the loop
SnowflakeExceptRetry ==
    /\ loader = "snowflake"
    /\ pc = "except"
    /\ pending' = <<>>
    /\ rollbacks' = rollbacks + 1
    /\ pc' = "loop"
    /\ UNCHANGED <<loader, target, df, batch_size, table, i, calls, commits,
                   ret, rets, table0, callStart>>
    /\ UNCHANGED outsideWriter

\* except Exception: self.conn.rollback(); return False
SnowflakeExcept ==
    /\ loader = "snowflake"
    /\ pc = "except"
    /\ pending' = <<>>
    /\ rollbacks' = rollbacks + 1
    /\ ret' = "false"
    /\ rets' = Append(rets, "false")
    /\ pc' = "done"
    /\ UNCHANGED <<loader, target, df, batch_size, table, i, calls, commits,
                   table0, callStart>>
    /\ UNCHANGED outsideWriter

\* One chunk_df.to_sql(..., if_exists='append') of the MySQL loop: to_sql runs
\* in a transaction of its own, committed when it returns and rolled back
\* when it raises.
MysqlToSql ==
    /\ loader = "mysql"
    /\ pc = "loop"
    /\ \E ok \in BOOLEAN :
         /\ calls' = Append(calls, [off |-> i, rows |-> Chunk(df, i, batch_size), ok |-> ok])
         /\ IF ok
              THEN /\ table' = InsertRows(table, Chunk(df, i, batch_size))
                   /\ i' = i + batch_size
                   /\ pc' = IF i + batch_size < Len(df) THEN "loop" ELSE "final"
              ELSE /\ table' = table
                   /\ i' = i
                   /\ pc' = "except"
    /\ UNCHANGED <<loader, target, df, batch_size, pending, commits, rollbacks,
                   ret, rets, table0, callStart>>
    /\ UNCHANGED outsideWriter

\* The loop is over: return True.
MysqlReturnTrue ==
    /\ loader = "mysql"
    /\ pc = "final"
    /\ ret' = "true"
    /\ rets' = Append(rets, "true")
    /\ pc' = "done"
    /\ UNCHANGED <<loader, target, df, batch_size, table, pending, i, calls,
                   commits, rollbacks, table0, callStart>>
    /\ UNCHANGED outsideWriter

\* except SQLAlchemyError / except Exception: return False (no rollback call)
MysqlExcept ==
    /\ loader = "mysql"
    /\ pc = "except"
    /\ ret' = "false"
    /\ rets' = Append(rets, "false")
    /\ pc' = "done"
    /\ UNCHANGED <<loader, target, df, batch_size, table, pending, i, calls,
                   commits, rollbacks, table0, callStart>>
    /\ UNCHANGED outsideWriter

Next ==
    \/ BeginLoad
    \/ SnowflakeExecute
    \/ SnowflakeCommitCheck
    \/ SnowflakeFinalCommit
    \/ SnowflakeExcept
    \/ MysqlToSql
    \/ MysqlReturnTrue
    \/ MysqlExcept

Spec == Init /\ [][Next]_vars

-----------------------------------------------------------------------------
(* The flatten engine.                                                     *)
(*                                                                         *)
(* A JSON value is an atom [t, n, f, s]: t is its kind, n.f a number with  *)
(* one decimal digit (15.2 is n = 15, f = 2), s a string.  A container     *)
(* kind ("dict", "list") carries its size in n; what it holds is found at  *)
(* the paths below it.  A document maps every path of the WeatherRecord    *)
(* shape to an atom, "absent" where the key is not in the document.        *)

MaxDocs == 2

Absent == [t |-> "absent", n |-> 0, f |-> 0, s |-> ""]
Null == [t |-> "null", n |-> 0, f |-> 0, s |-> ""]
Num(n, f) == [t |-> "num", n |-> n, f |-> f, s |-> ""]
Str(s) == [t |-> "str", n |-> 0, f |-> 0, s |-> s]
Dict(n) == [t |-> "dict", n |-> n, f |-> 0, s |-> ""]
List(n) == [t |-> "list", n |-> n, f |-> 0, s |-> ""]

Containers == {"coord", "main", "wind", "clouds", "sys"}

TopPaths == {"name", "id", "base", "visibility", "dt", "timezone", "cod"}

LeafPaths ==
    {"coord.lon", "coord.lat",
     "main.temp", "main.feels_like", "main.temp_min", "main.temp_max",
     "main.pressure", "main.humidity", "main.sea_level", "main.grnd_level",
     "wind.speed", "wind.deg", "clouds.all",
     "sys.country", "sys.sunrise", "sys.sunset", "sys.type", "sys.id"}

WeatherFields ==
    {"weather[0].id", "weather[0].main", "weather[0].description", "weather[0].icon"}

Paths == TopPaths \cup Containers \cup LeafPaths \cup {"weather", "weather[0]"}
             \cup WeatherFields

\* the key a path lies under; "" for a top-level key
Parent(p) ==
    CASE p \in {"coord.lon", "coord.lat"} -> "coord"
      [] p \in {"main.temp", "main.feels_like", "main.temp_min", "main.temp_max",
                "main.pressure", "main.humidity", "main.sea_level",
                "main.grnd_level"} -> "main"
      [] p \in {"wind.speed", "wind.deg"} -> "wind"
      [] p = "clouds.all" -> "clouds"
      [] p \in {"sys.country", "sys.sunrise", "sys.sunset", "sys.type", "sys.id"} -> "sys"
      [] p = "weather[0]" -> "weather"
      [] p \in WeatherFields -> "weather[0]"
      [] OTHER -> ""

\* the atom of a key that holds the paths below it
Holder(q) == IF q = "weather" THEN List(1) ELSE Dict(1)

Holds(d, q) ==
    IF q = "weather" THEN d[q].t = "list" /\ d[q].n >= 1 ELSE d[q].t = "dict"

\* every key above p holds what lies below it
Open(d, p) ==
    \/ Parent(p) = ""
    \/ /\ Holds(d, Parent(p))
       /\ \/ Parent(Parent(p)) = ""
          \/ Holds(d, Parent(Parent(p)))

\* A document is a tree: nothing lies below a key that is absent, null or a
\* scalar, and a non-empty weather list has a first element.
Tree(d) ==
    [p \in Paths |->
        IF ~Open(d, p) THEN Absent
        ELSE IF p = "weather[0]" /\ d[p].t = "absent" THEN Dict(0)
        ELSE d[p]]

\* d with the value at p replaced by a (a = Absent removes the key)
SetPath(d, p, a) ==
    LET q == Parent(p)
        r == IF q = "" THEN "" ELSE Parent(q)
        up(e, k) == IF k = "" \/ a.t = "absent" \/ Holds(e, k)
                      THEN e ELSE [e EXCEPT ![k] = Holder(k)]
    IN  Tree([up(up(d, r), q) EXCEPT ![p] = a])

EmptyDoc == [p \in Paths |-> Absent]

\* {"name":"London","id":2643743,"main":{"temp":15.2},"weather":[{"id":800,
\*  "main":"Clear","description":"clear sky","icon":"01d"}],"sys":{"country":"GB"}}
LondonDoc ==
    [p \in Paths |->
        CASE p = "name" -> Str("London")
          [] p = "id" -> Num(2643743, 0)
          [] p = "main" -> Dict(1)
          [] p = "main.temp" -> Num(15, 2)
          [] p = "weather" -> List(1)
          [] p = "weather[0]" -> Dict(4)
          [] p = "weather[0].id" -> Num(800, 0)
          [] p = "weather[0].main" -> Str("Clear")
          [] p = "weather[0].description" -> Str("clear sky")
          [] p = "weather[0].icon" -> Str("01d")
          [] p = "sys" -> Dict(1)
          [] p = "sys.country" -> Str("GB")
          [] OTHER -> Absent]

\* a response of the weather API with every field of the shape present
FullDoc ==
    [p \in Paths |->
        CASE p = "name" -> Str("Madurai")
          [] p = "base" -> Str("stations")
          [] p = "sys.country" -> Str("IN")
          [] p = "weather[0].main" -> Str("Clouds")
          [] p = "weather[0].description" -> Str("few clouds")
          [] p = "weather[0].icon" -> Str("02d")
          [] p \in Containers -> Dict(2)
          [] p = "weather" -> List(1)
          [] p = "weather[0]" -> Dict(4)
          [] p \in {"coord.lon", "coord.lat", "main.temp", "main.feels_like",
                    "main.temp_min", "main.temp_max", "wind.speed"} -> Num(28, 4)
          [] OTHER -> Num(1013, 0)]

-----------------------------------------------------------------------------
(* The normalized table's 29 columns: name, source path and type.          *)

Col(c, p, k) == [col |-> c, path |-> p, kind |-> k]

Columns ==
    << Col("CITY_NAME", "name", "text"),
       Col("CITY_ID", "id", "int"),
       Col("COUNTRY_CODE", "sys.country", "text"),
       Col("LONGITUDE", "coord.lon", "float"),
       Col("LATITUDE", "coord.lat", "float"),
       Col("WEATHER_ID", "weather[0].id", "int"),
       Col("WEATHER_MAIN", "weather[0].main", "text"),
       Col("WEATHER_DESCRIPTION", "weather[0].description", "text"),
       Col("WEATHER_ICON", "weather[0].icon", "text"),
       Col("BASE", "base", "text"),
       Col("TEMPERATURE", "main.temp", "float"),
       Col("FEELS_LIKE", "main.feels_like", "float"),
       Col("TEMP_MIN", "main.temp_min", "float"),
       Col("TEMP_MAX", "main.temp_max", "float"),
       Col("PRESSURE", "main.pressure", "int"),
       Col("HUMIDITY", "main.humidity", "int"),
       Col("SEA_LEVEL", "main.sea_level", "int"),
       Col("GROUND_LEVEL", "main.grnd_level", "int"),
       Col("VISIBILITY", "visibility", "int"),
       Col("WIND_SPEED", "wind.speed", "float"),
       Col("WIND_DEGREE", "wind.deg", "int"),
       Col("CLOUD_COVERAGE", "clouds.all", "int"),
       Col("DATA_TIMESTAMP", "dt", "int"),
       Col("SUNRISE_TIMESTAMP", "sys.sunrise", "int"),
       Col("SUNSET_TIMESTAMP", "sys.sunset", "int"),
       Col("TIMEZONE_OFFSET", "timezone", "int"),
       Col("SYS_TYPE", "sys.type", "int"),
       Col("SYS_ID", "sys.id", "int"),
       Col("RESPONSE_CODE", "cod", "int") >>

ColumnNames == {Columns[k].col : k \in 1..Len(Columns)}

ColumnOf(c) == Columns[CHOOSE k \in 1..Len(Columns) : Columns[k].col = c]

\* the documented default of a column: 0 / 0.0 for numbers, "" for text
Default(kind) == IF kind = "text" THEN Str("") ELSE Num(0, 0)

-----------------------------------------------------------------------------
(* pandas: the frame read_json_files_pandas builds (pd.json_normalize of   *)
(* each document, then pd.concat) and the two normalizers.                 *)

NaN == [t |-> "nan", n |-> 0, f |-> 0, s |-> ""]

\* pd.json_normalize(data): a nested object becomes dotted columns, an empty
\* object no column; a list, a null or a scalar stays one column
HasColumn(d, p) ==
    /\ p \in TopPaths \cup LeafPaths \cup {"weather"}
    /\ d[p].t \notin {"absent", "dict"}

\* the columns of pd.concat(...): the union of the documents' columns
FrameColumns(b) == {p \in Paths : \E r \in 1..Len(b) : HasColumn(b[r], p)}

\* the cell of document r in column p: NaN where the document has no such key
Cell(b, r, p) == IF HasColumn(b[r], p) THEN b[r][p] ELSE NaN

\* text that Python and pandas parse as a number
ParseNumber(s) ==
    CASE s = "12" -> Num(12, 0)
      [] s = "7.5" -> Num(7, 5)
      [] OTHER -> NaN

\* pd.to_numeric(..., errors='coerce') on one cell
ToNumeric(a) ==
    CASE a.t = "num" -> a
      [] a.t = "str" -> ParseNumber(a.s)
      [] OTHER -> NaN

\* .fillna(value) on one cell: None and NaN are missing
FillNa(a, value) == IF a.t \in {"nan", "null", "absent"} THEN value ELSE a

\* .astype(np.int64) truncates, .astype(np.float64) keeps the number
AsType(a, kind) == IF kind = "int" THEN Num(a.n, 0) ELSE a

\* pd.to_numeric(df.get(p, 0), errors='coerce').fillna(0).astype(kind)
NumericCell(b, r, p, kind) ==
    AsType(FillNa(ToNumeric(Cell(b, r, p)), Num(0, 0)), kind)

\* df.get(p, 0) is the int 0 when the frame has no column p, pd.to_numeric
\* returns a scalar unchanged, and 0 has no fillna: AttributeError
ScalarDefaultRaises(cols, p) == p \notin cols

\* df.get(p, pd.Series([dflt] * len(df))).fillna(dflt)
TextCell(cols, b, r, p, dflt) ==
    IF p \in cols THEN FillNa(Cell(b, r, p), dflt) ELSE dflt

\* extract_weather_field(field) on row r; field is a path "weather[0].<key>"
ExtractWeatherField(cols, b, r, field) ==
    LET weather == IF "weather" \in cols THEN Cell(b, r, "weather") ELSE List(0)
        first == b[r]["weather[0]"]
        dflt == IF field = "weather[0].id" THEN Num(0, 0) ELSE Str("")
    IN  IF weather.t = "list" /\ weather.n > 0
          THEN IF first.t = "dict"
                 THEN IF b[r][field].t = "absent" THEN dflt ELSE b[r][field]
                 ELSE IF field = "weather[0].id" THEN first ELSE Str("")
          ELSE dflt

PandasNormalizedCell(cols, b, r, c) ==
    LET k == ColumnOf(c)
    IN  CASE c = "WEATHER_ID" ->
               AsType(FillNa(ToNumeric(ExtractWeatherField(cols, b, r, k.path)), Num(0, 0)), "int")
          [] c \in {"WEATHER_MAIN", "WEATHER_DESCRIPTION", "WEATHER_ICON"} ->
               FillNa(ExtractWeatherField(cols, b, r, k.path), Str(""))
          [] k.kind = "text" /\ c \notin {"WEATHER_MAIN", "WEATHER_DESCRIPTION", "WEATHER_ICON"} ->
               TextCell(cols, b, r, k.path, Str(""))
          [] OTHER -> NumericCell(b, r, k.path, k.kind)

\* the numeric columns read with df.get(path, 0)
ScalarDefaultPaths ==
    {Columns[k].path : k \in {j \in 1..Len(Columns) :
        Columns[j].kind # "text" /\ Columns[j].col # "WEATHER_ID"}}

Raised == [raised |-> TRUE, rows |-> <<>>]

Returned(rows) == [raised |-> FALSE, rows |-> rows]

\* normalize_dataframe_for_normalized_table(df)
NormalizeForNormalizedTable(b) ==
    LET cols == FrameColumns(b)
    IN  IF b = <<>> THEN Returned(<<>>)
        ELSE IF \E p \in ScalarDefaultPaths : ScalarDefaultRaises(cols, p) THEN Raised
        ELSE Returned([r \in 1..Len(b) |->
                         [c \in ColumnNames |-> PandasNormalizedCell(cols, b, r, c)]])

\* the keys of the shape in a fixed order
RECURSIVE SeqOf(_)
SeqOf(S) == IF S = {} THEN <<>> ELSE LET x == CHOOSE y \in S : TRUE
                                     IN  <<x>> \o SeqOf(S \ {x})

PathSeq == SeqOf(Paths)

\* json.dumps(data): the text names every key the document has, with its
\* value, and no other key; it is modelled as the sequence of these pairs
JsonDumps(d) ==
    LET keep(p) == d[p].t # "absent"
    IN  SelectSeq([k \in 1..Len(PathSeq) |-> <<PathSeq[k], d[PathSeq[k]]>>],
                  LAMBDA e : keep(e[1]))

\* json.loads(text): a key the text does not name is absent
JsonLoads(text) ==
    [p \in Paths |->
        IF \E k \in 1..Len(text) : text[k][1] = p
          THEN text[CHOOSE k \in 1..Len(text) : text[k][1] = p][2]
          ELSE Absent]

\* the else branch of normalize_dataframe_for_raw_table: the document rebuilt
\* with a default for every top-level key it lacks
RawJsonReconstructed(b, r) ==
    JsonDumps([p \in Paths |->
        IF b[r][p].t # "absent" THEN b[r][p]
        ELSE IF p \in Containers THEN Dict(0)
        ELSE IF p = "weather" THEN List(0)
        ELSE IF p \in {"base", "name"} THEN Str("")
        ELSE IF p \in TopPaths THEN Num(0, 0)
        ELSE Absent])

\* normalized['raw_json'] = json.dumps(data), taken as WEATHER_JSON because
\* 'raw_json' is a column of every frame read_json_files_pandas returns
RawJson(b, r) == JsonDumps(b[r])

\* normalize_dataframe_for_raw_table(df)
NormalizeForRawTable(b) ==
    LET cols == FrameColumns(b)
    IN  IF b = <<>> THEN Returned(<<>>)
        ELSE IF ScalarDefaultRaises(cols, "id") THEN Raised
        ELSE Returned([r \in 1..Len(b) |->
                         [CITY_NAME |-> TextCell(cols, b, r, "name", Str("Unknown")),
                          CITY_ID |-> NumericCell(b, r, "id", "int"),
                          COUNTRY_CODE |-> TextCell(cols, b, r, "sys.country", Str("")),
                          WEATHER_JSON |-> RawJson(b, r)]])

-----------------------------------------------------------------------------
(* The SQL-text generator generate_snowflake_insert_normalized: a row is   *)
(* the Python values spliced into the INSERT statement of one document.    *)

\* Python truth value of a JSON value
Truthy(a) ==
    CASE a.t \in {"list", "dict"} -> a.n > 0
      [] a.t = "str" -> a.s # ""
      [] a.t = "num" -> ~(a.n = 0 /\ a.f = 0)
      [] OTHER -> FALSE

\* weather_array = data.get('weather', [{}]);
\* weather = weather_array[0] if weather_array else {}
\* is [] on a non-empty object, string or number: an exception or a character
WeatherIsDict(d) ==
    \/ d["weather"].t = "absent"
    \/ ~Truthy(d["weather"])
    \/ d["weather"].t = "list" /\ d["weather[0]"].t = "dict"

\* <container>.get(key, default) with <container> = data.get(name, {})
ContainerGetRaises(d, c) == d[c].t \notin {"absent", "dict"}

\* weather.get("description", "").replace("'", "''") needs a string
DescriptionRaises(d) ==
    /\ WeatherIsDict(d)
    /\ d["weather[0].description"].t \notin {"absent", "str"}

GeneratorRaises(d) ==
    \/ \E c \in Containers : ContainerGetRaises(d, c)
    \/ ~WeatherIsDict(d)
    \/ DescriptionRaises(d)

\* x.get(key, default): the value of the key when it is there, null included
GeneratorCell(d, c) ==
    LET k == ColumnOf(c)
    IN  IF d[k.path].t = "absent" THEN Default(k.kind) ELSE d[k.path]

\* generate_snowflake_insert_normalized(json_data_list): one statement per item
GenerateInsertNormalized(b) ==
    IF \E r \in 1..Len(b) : GeneratorRaises(b[r]) THEN Raised
    ELSE Returned([r \in 1..Len(b) |-> [c \in ColumnNames |-> GeneratorCell(b[r], c)]])

\* city_name = data.get('name', 'Unknown'); city_id = data.get('id', 0)
VariantCell(d, p, dflt) == IF d[p].t = "absent" THEN dflt ELSE d[p]

\* generate_snowflake_insert_variant(json_data_list): one statement per item;
\* data.get('sys', {}).get('country', '') raises when sys is not an object
GenerateInsertVariant(b) ==
    IF \E r \in 1..Len(b) : ContainerGetRaises(b[r], "sys") THEN Raised
    ELSE Returned([r \in 1..Len(b) |->
                     [CITY_NAME |-> VariantCell(b[r], "name", Str("Unknown")),
                      CITY_ID |-> VariantCell(b[r], "id", Num(0, 0)),
                      COUNTRY_CODE |-> VariantCell(b[r], "sys.country", Str("")),
                      WEATHER_JSON |-> JsonDumps(b[r])]])

-----------------------------------------------------------------------------
(* The flatten engine's specification: a batch of documents is drawn from  *)
(* a bounded family and one of the three functions is applied to it.       *)

ScalarPaths == TopPaths \cup LeafPaths \cup WeatherFields

\* absent, null, text that is no number, text that is one, an int, a float
ScalarAtoms == {Absent, Null, Str("abc"), Str("12"), Num(7, 0), Num(7, 5)}

ContainerAtoms == {Absent, Null, Dict(0), Str("abc"), Num(7, 0)}

WeatherAtoms ==
    {Absent, Null, List(0), List(1), Dict(0), Dict(1), Str("rain"), Str(""),
     Num(5, 0), Num(0, 0)}

FirstAtoms == {Dict(0), Null, Num(5, 0), Str("x")}

Edits ==
    (ScalarPaths \X ScalarAtoms) \cup (Containers \X ContainerAtoms)
        \cup ({"weather"} \X WeatherAtoms) \cup ({"weather[0]"} \X FirstAtoms)

BaseDocs == {EmptyDoc, LondonDoc, FullDoc}

\* the base documents and every document one edit away from one
Docs == BaseDocs \cup {SetPath(d, e[1], e[2]) : d \in BaseDocs, e \in Edits}

\* a document under study, followed by base documents read in the same batch
RECURSIVE Batches(_)
Batches(n) ==
    IF n = 1 THEN {<<d>> : d \in Docs}
    ELSE LET prev == Batches(n - 1)
         IN  prev \cup {Append(b, d) : b \in {x \in prev : Len(x) = n - 1}, d \in BaseDocs}

WriterIdle ==
    /\ loader = "snowflake"
    /\ target = "normalized"
    /\ df = <<>>
    /\ batch_size = 1
    /\ table0 = <<>>
    /\ table = <<>>
    /\ callStart = <<>>
    /\ pending = <<>>
    /\ pc = "idle"
    /\ i = 0
    /\ calls = <<>>
    /\ commits = 0
    /\ rollbacks = 0
    /\ ret = "none"
    /\ rets = <<>>

InitFlatten ==
    /\ WriterIdle
    /\ SqlIdle
    /\ ReadIdle
    /\ ListIdle
    /\ RunIdle
    /\ FetchIdle
    /\ DagIdle
    /\ ConfigIdle
    /\ batch \in Batches(MaxDocs)
    /\ op = "none"
    /\ result = NoResult

\* run(): df_normalized = self.normalize_dataframe_for_normalized_table(df)
ApplyNormalizeForNormalizedTable ==
    /\ op = "none"
    /\ op' = "pandas_normalized"
    /\ result' = NormalizeForNormalizedTable(batch)
    /\ UNCHANGED batch
    /\ UNCHANGED outsideFlatten

\* run(): df_raw = self.normalize_dataframe_for_raw_table(df)
ApplyNormalizeForRawTable ==
    /\ op = "none"
    /\ op' = "pandas_raw"
    /\ result' = NormalizeForRawTable(batch)
    /\ UNCHANGED batch
    /\ UNCHANGED outsideFlatten

\* main(): normalized_sql = generate_snowflake_insert_normalized(json_data_list)
ApplyGenerateInsertNormalized ==
    /\ op = "none"
    /\ op' = "sql_normalized"
    /\ result' = GenerateInsertNormalized(batch)
    /\ UNCHANGED batch
    /\ UNCHANGED outsideFlatten

\* main(): variant_sql = generate_snowflake_insert_variant(json_data_list)
ApplyGenerateInsertVariant ==
    /\ op = "none"
    /\ op' = "sql_variant"
    /\ result' = GenerateInsertVariant(batch)
    /\ UNCHANGED batch
    /\ UNCHANGED outsideFlatten

NextFlatten ==
    \/ ApplyNormalizeForNormalizedTable
    \/ ApplyNormalizeForRawTable
    \/ ApplyGenerateInsertNormalized
    \/ ApplyGenerateInsertVariant

SpecFlatten == InitFlatten /\ [][NextFlatten]_vars

-----------------------------------------------------------------------------
(* SQL text.  A text is a sequence of characters; the characters that      *)
(* matter are the single quote, the backslash, the newline, a letter, and  *)
(* the two delimiter texts of the raw loader, each taken as one character. *)
(* A literal is the text as it stands in the statement with its opening    *)
(* and closing delimiter; Snowflake reads it back by the rules of its      *)
(* string constants.                                                       *)

MaxLen == 3

Chars == {"n", "'", "\\", "\n", "$JSON$", "$WEATHER_JSON$"}

RECURSIVE Texts(_)
Texts(n) ==
    IF n = 0 THEN {<<>>}
    ELSE LET shorter == Texts(n - 1)
         IN  shorter \cup {Append(t, c) : t \in {x \in shorter : Len(x) = n - 1}, c \in Chars}

TextColumns ==
    {"CITY_NAME", "COUNTRY_CODE", "WEATHER_MAIN", "WEATHER_DESCRIPTION",
     "WEATHER_ICON", "BASE"}

\* str.replace("'", "''")
RECURSIVE ReplaceQuotes(_)
ReplaceQuotes(t) ==
    IF t = <<>> THEN <<>>
    ELSE (IF Head(t) = "'" THEN <<"'", "'">> ELSE <<Head(t)>>) \o ReplaceQuotes(Tail(t))

\* json.dumps of a string: newline and backslash are written as escapes
RECURSIVE JsonEscape(_)
JsonEscape(t) ==
    IF t = <<>> THEN <<>>
    ELSE (CASE Head(t) = "\n" -> <<"\\", "n">>
            [] Head(t) = "\\" -> <<"\\", "\\">>
            [] OTHER -> <<Head(t)>>) \o JsonEscape(Tail(t))

\* json.dumps(data) of the document {"name": <t>}
JsonDumpsText(t) == <<"{", "\"">> \o JsonEscape(t) \o <<"\"", "}">>

\* the string between the double quotes of a JSON text, unescaped; ok is
\* FALSE where the text is no JSON (a raw newline or an unknown escape)
RECURSIVE JsonUnescape(_, _)
JsonUnescape(t, acc) ==
    IF t = <<>> THEN [ok |-> TRUE, val |-> acc]
    ELSE IF Head(t) \in {"\n", "\"", "{", "}"} THEN [ok |-> FALSE, val |-> acc]
    ELSE IF Head(t) = "\\"
      THEN IF Len(t) >= 2 /\ t[2] \in {"n", "\\"}
             THEN JsonUnescape(SubSeq(t, 3, Len(t)),
                               Append(acc, IF t[2] = "n" THEN "\n" ELSE "\\"))
             ELSE [ok |-> FALSE, val |-> acc]
    ELSE JsonUnescape(Tail(t), Append(acc, Head(t)))

\* PARSE_JSON / json.loads of a text of the document {"name": <t>}
JsonLoadsText(x) ==
    IF /\ Len(x) >= 4
       /\ x[1] = "{" /\ x[2] = "\"" /\ x[Len(x) - 1] = "\"" /\ x[Len(x)] = "}"
      THEN JsonUnescape(SubSeq(x, 3, Len(x) - 2), <<>>)
      ELSE [ok |-> FALSE, val |-> <<>>]

\* Snowflake reads a single-quoted string constant from position k on: two
\* quotes are one quote, a backslash escapes the character after it, one
\* quote ends the constant.  end is the position of that quote, 0 if none.
RECURSIVE SingleQuoted(_, _, _)
SingleQuoted(x, k, acc) ==
    IF k > Len(x) THEN [end |-> 0, val |-> acc]
    ELSE IF x[k] = "'"
      THEN IF k < Len(x) /\ x[k + 1] = "'"
             THEN SingleQuoted(x, k + 2, Append(acc, "'"))
             ELSE [end |-> k, val |-> acc]
    ELSE IF x[k] = "\\"
      THEN IF k = Len(x) THEN [end |-> 0, val |-> acc]
           ELSE SingleQuoted(x, k + 2,
                             Append(acc, IF x[k + 1] = "n" THEN "\n" ELSE x[k + 1]))
    ELSE SingleQuoted(x, k + 1, Append(acc, x[k]))

\* a constant opened by a delimiter text ends at the delimiter's next
\* occurrence and stands for the characters between, as they are
DollarQuoted(x) ==
    LET ends == {k \in 2..Len(x) : x[k] = x[1]}
        k == IF ends = {} THEN 0 ELSE CHOOSE e \in ends : \A o \in ends : e <= o
    IN  [end |-> k, val |-> IF k = 0 THEN <<>> ELSE SubSeq(x, 2, k - 1)]

\* the constant a literal stands for
ReadLiteral(x) ==
    IF x = <<>> THEN [end |-> 0, val |-> <<>>]
    ELSE IF x[1] = "'" THEN SingleQuoted(x, 2, <<>>)
    ELSE DollarQuoted(x)

Quoted(body) == <<"'">> \o body \o <<"'">>

\* delimiter = '$JSON$'; if delimiter in weather_json: delimiter = '$WEATHER_JSON$'
Delimiter(text) ==
    IF \E k \in 1..Len(text) : text[k] = "$JSON$" THEN "$WEATHER_JSON$" ELSE "$JSON$"

\* generate_snowflake_insert_variant: '{city_name}', '{country_code}',
\* PARSE_JSON('{json_str}') with json_str = json.dumps(data).replace("'", "''")
VariantLiteral(c, t) ==
    IF c = "WEATHER_JSON" THEN Quoted(ReplaceQuotes(JsonDumpsText(t)))
    ELSE Quoted(t)

\* generate_snowflake_insert_normalized: only the description is escaped
NormalizedLiteral(c, t) ==
    IF c = "WEATHER_DESCRIPTION" THEN Quoted(ReplaceQuotes(t)) ELSE Quoted(t)

\* load_dataframe_to_raw_table: the two text columns are escaped, the JSON
\* text stands between delimiter texts
LoadRawLiteral(c, t) ==
    IF c = "WEATHER_JSON"
      THEN LET text == JsonDumpsText(t)
           IN  <<Delimiter(text)>> \o text \o <<Delimiter(text)>>
      ELSE Quoted(ReplaceQuotes(t))

\* load_dataframe_to_normalized_table: every str value is escaped
LoadNormalizedLiteral(c, t) == Quoted(ReplaceQuotes(t))

InitSql ==
    /\ WriterIdle
    /\ FlattenIdle
    /\ ReadIdle
    /\ ListIdle
    /\ RunIdle
    /\ FetchIdle
    /\ DagIdle
    /\ ConfigIdle
    /\ sqlVal \in Texts(MaxLen)
    /\ sqlFn = "none"
    /\ sqlCol = "none"
    /\ sqlLit = <<>>

Embed(fn, c, lit) ==
    /\ sqlFn = "none"
    /\ sqlFn' = fn
    /\ sqlCol' = c
    /\ sqlLit' = lit
    /\ UNCHANGED sqlVal
    /\ UNCHANGED outsideSql

GenerateSnowflakeInsertVariant ==
    \E c \in {"CITY_NAME", "COUNTRY_CODE", "WEATHER_JSON"} :
        Embed("generate_snowflake_insert_variant", c, VariantLiteral(c, sqlVal))

GenerateSnowflakeInsertNormalized ==
    \E c \in TextColumns :
        Embed("generate_snowflake_insert_normalized", c, NormalizedLiteral(c, sqlVal))

LoadRawValues ==
    \E c \in {"CITY_NAME", "COUNTRY_CODE", "WEATHER_JSON"} :
        Embed("load_dataframe_to_raw_table", c, LoadRawLiteral(c, sqlVal))

LoadNormalizedValues ==
    \E c \in TextColumns :
        Embed("load_dataframe_to_normalized_table", c, LoadNormalizedLiteral(c, sqlVal))

NextSql ==
    \/ GenerateSnowflakeInsertVariant
    \/ GenerateSnowflakeInsertNormalized
    \/ LoadRawValues
    \/ LoadNormalizedValues

SpecSql == InitSql /\ [][NextSql]_vars

-----------------------------------------------------------------------------
(* Source enumeration: read_json_files_pandas over the S3 listing and      *)
(* read_json_files over the globbed directory.  An item is named by its    *)
(* place in the listing; reading it gives a document, or fails to read or  *)
(* to parse.                                                               *)

MaxItems == 4
MaxJsonBatch == 2

\* the listing of n items
Listing(n) == [k \in 1..n |-> k]

RECURSIVE Flatten(_)
\* pd.concat(frames, ignore_index=True): the rows of the frames, in order
Flatten(frames) ==
    IF frames = <<>> THEN <<>> ELSE Head(frames) \o Flatten(Tail(frames))

InitRead ==
    /\ WriterIdle
    /\ FlattenIdle
    /\ SqlIdle
    /\ reader \in {"pandas", "generator"}
    /\ \E n \in 0..MaxItems : json_files = Listing(n)
    /\ json_batch_size \in 1..MaxJsonBatch
    /\ readPos = 0
    /\ batch_data = <<>>
    /\ all_dataframes = <<>>
    /\ attempts = <<>>
    /\ printed = <<>>
    /\ readOut = <<>>
    /\ readPc = "idle"
    /\ ListIdle
    /\ RunIdle
    /\ FetchIdle
    /\ DagIdle
    /\ ConfigIdle

\* entry: an empty listing returns an empty frame / an empty list at once
ReadBegin ==
    /\ readPc = "idle"
    /\ readPc' = IF json_files = <<>> THEN "done" ELSE "loop"
    /\ UNCHANGED <<reader, json_files, json_batch_size, readPos, batch_data,
                   all_dataframes, attempts, printed, readOut>>
    /\ UNCHANGED outsideRead

\* the item visited next
Item == json_files[readPos + 1]

\* the last item of range(i, i + JSON_BATCH_SIZE), or of the listing
EndsBatch == (readPos + 1) % json_batch_size = 0 \/ readPos + 1 = Len(json_files)

\* if batch_data: all_dataframes.append(pd.concat(batch_data)); the generator
\* reader has one list and no batches
CloseBatch(data) ==
    IF reader = "pandas" /\ EndsBatch
      THEN /\ batch_data' = <<>>
           /\ all_dataframes' = IF data = <<>> THEN all_dataframes
                                ELSE Append(all_dataframes, data)
      ELSE /\ batch_data' = data
           /\ UNCHANGED all_dataframes

\* a failing item that ends the enumeration
ReadItemFailsAbort ==
    /\ readPc = "loop"
    /\ readPos < Len(json_files)
    /\ \E why \in {"read", "parse"} :
         /\ attempts' = Append(attempts, [item |-> Item, outcome |-> why])
         /\ printed' = Append(printed, Item)
    /\ readPos' = Len(json_files)
    /\ CloseBatch(batch_data)
    /\ UNCHANGED <<reader, json_files, json_batch_size, readOut, readPc>>
    /\ UNCHANGED outsideRead

\* the item is read and parsed: its frame / its entry is appended
ReadItemOk ==
    /\ readPc = "loop"
    /\ readPos < Len(json_files)
    /\ attempts' = Append(attempts, [item |-> Item, outcome |-> "ok"])
    /\ readPos' = readPos + 1
    /\ CloseBatch(Append(batch_data, Item))
    /\ UNCHANGED <<reader, json_files, json_batch_size, printed, readOut, readPc>>
    /\ UNCHANGED outsideRead

\* get_object / open raises, or the content is no JSON: the reason is printed
\* (read_json_from_s3 returns None and the loop continues; read_json_files
\* catches the exception inside the loop)
ReadItemFails ==
    /\ readPc = "loop"
    /\ readPos < Len(json_files)
    /\ \E why \in {"read", "parse"} :
         /\ attempts' = Append(attempts, [item |-> Item, outcome |-> why])
         /\ printed' = Append(printed, Item)
    /\ readPos' = readPos + 1
    /\ CloseBatch(batch_data)
    /\ UNCHANGED <<reader, json_files, json_batch_size, readOut, readPc>>
    /\ UNCHANGED outsideRead

\* the loops are over: df = pd.concat(all_dataframes) / return json_files
ReadReturn ==
    /\ readPc = "loop"
    /\ readPos = Len(json_files)
    /\ readPc' = "done"
    /\ readOut' = IF reader = "pandas" THEN Flatten(all_dataframes) ELSE batch_data
    /\ UNCHANGED <<reader, json_files, json_batch_size, readPos, batch_data,
                   all_dataframes, attempts, printed>>
    /\ UNCHANGED outsideRead

NextRead ==
    \/ ReadBegin
    \/ ReadItemOk
    \/ ReadItemFails
    \/ ReadReturn

SpecRead == InitRead /\ [][NextRead]_vars

-----------------------------------------------------------------------------
(* The S3 listing: list_s3_json_files against a store that answers a       *)
(* request without token with its first page and a request with token t    *)
(* with page t.  A page is [keys, truncated, token]: keys empty means the  *)
(* response has no 'Contents', token 0 no NextContinuationToken.  A key's  *)
(* name is its parts, the extension last.                                  *)

MaxPages == 3
MaxRequests == 4

KeyNames ==
    [json |-> <<"a", ".json">>, upper |-> <<"B", ".JSON">>, txt |-> <<"c", ".txt">>,
     bak |-> <<"d", ".json", ".bak">>]

\* what one page may hold
PageNames ==
    {<<>>, <<KeyNames.json>>, <<KeyNames.upper, KeyNames.txt>>,
     <<KeyNames.bak, KeyNames.json>>}

Key(page, idx, name) == [page |-> page, idx |-> idx, name |-> name]

PageKeys(k, names) == [j \in 1..Len(names) |-> Key(k, j, names[j])]

\* the listings of n pages: the last page is not truncated, every page before
\* it is, and names the next page or carries no token
RECURSIVE Listings(_)
Listings(n) ==
    IF n = 0 THEN {<<>>}
    ELSE {Append(l, [keys |-> PageKeys(n, names), truncated |-> TRUE, token |-> t]) :
             l \in Listings(n - 1), names \in PageNames, t \in {0, n + 1}}

PagedListings ==
    UNION {{Append(l, [keys |-> PageKeys(n, names), truncated |-> FALSE, token |-> 0]) :
               l \in Listings(n - 1), names \in PageNames} : n \in 1..MaxPages}

\* str.lower() of one part of a name
Lower(part) ==
    CASE part = ".JSON" -> ".json"
      [] part = "B" -> "b"
      [] OTHER -> part

\* key.endswith('.json'), the name taken as it is
EndsWithJsonExact(key) == key.name[Len(key.name)] = ".json"

\* key.lower().endswith('.json')
EndsWithJson(key) == Lower(key.name[Len(key.name)]) = ".json"

JsonKeys(keys) == SelectSeq(keys, EndsWithJson)

InitList ==
    /\ WriterIdle
    /\ FlattenIdle
    /\ SqlIdle
    /\ ReadIdle
    /\ s3_pages \in PagedListings
    /\ continuation_token = 0
    /\ requests = <<>>
    /\ listed = <<>>
    /\ listPc = "loop"
    /\ RunIdle
    /\ FetchIdle
    /\ DagIdle
    /\ ConfigIdle

\* the page the store answers the next request with
Response == s3_pages[IF continuation_token = 0 THEN 1 ELSE continuation_token]

\* one turn of the while loop: request a page, stop on a response without
\* 'Contents', collect the .json keys, stop on IsTruncated false, else keep
\* the page's NextContinuationToken for the next request
ListPage ==
    /\ listPc = "loop"
    /\ Len(requests) < MaxRequests
    /\ requests' = Append(requests, continuation_token)
    /\ IF Response.keys = <<>>
         THEN /\ listPc' = "done"
              /\ UNCHANGED <<listed, continuation_token>>
         ELSE /\ listed' = listed \o JsonKeys(Response.keys)
              /\ IF ~Response.truncated
                   THEN /\ listPc' = "done"
                        /\ UNCHANGED continuation_token
                   ELSE /\ listPc' = "loop"
                        /\ continuation_token' = Response.token
    /\ UNCHANGED s3_pages
    /\ UNCHANGED outsideList

\* the except clauses lose nothing: the keys collected before the request
\* that raised are returned
ListedAfterRaiseKept(collected) == collected

\* `return []` in both except clauses
ListedAfterRaise(collected) == <<>>

\* list_objects_v2 raises: both except clauses print and return []
ListRaises ==
    /\ listPc = "loop"
    /\ Len(requests) < MaxRequests
    /\ requests' = Append(requests, continuation_token)
    /\ listed' = ListedAfterRaise(listed)
    /\ listPc' = "failed"
    /\ UNCHANGED <<s3_pages, continuation_token>>
    /\ UNCHANGED outsideList

NextList ==
    \/ ListPage
    \/ ListRaises

SpecList == InitList /\ [][NextList]_vars

-----------------------------------------------------------------------------
(* WeatherDataLoader.run, called by main() of the script or by the task    *)
(* load_to_snowflake_task.  A configuration field is "set" (a non-empty    *)
(* value), "empty" or "absent"; a file is "ok", "missing" or "invalid"     *)
(* (no JSON).                                                              *)

AccountVariations == 5

FieldStates == {"set", "empty", "absent"}

\* the complete configuration, the ones with one field empty or absent, and
\* the one with no field at all
NearlySet(fields) ==
    {AllSet(fields), [f \in fields |-> "absent"]}
        \cup {[AllSet(fields) EXCEPT ![f] = st] : f \in fields, st \in {"empty", "absent"}}

\* all(field in cfg and cfg[field] for field in required_fields), with the
\* truth test left out
HasFieldsPresent(cfg) == \A f \in DOMAIN cfg : cfg[f] # "absent"

\* all(field in cfg and cfg[field] for field in required_fields)
HasFields(cfg) == \A f \in DOMAIN cfg : cfg[f] \notin {"absent", "empty"}

\* load_aws_config(): None unless the file is there, is JSON and its aws
\* section has the three required fields
LoadAwsConfig == IF aws_file.state = "ok" /\ HasFields(aws_file.aws) THEN "loaded" ELSE "None"

\* load_config_file(): the six fields of the snowflake section, or None
LoadConfigFile == sf_file.state = "ok" /\ HasFields(sf_file.snowflake)

\* get_snowflake_credentials(): the file's credentials, else the
\* environment's when all six variables are non-empty, else None
GetSnowflakeCredentials ==
    IF LoadConfigFile THEN "file"
    ELSE IF \A f \in SnowflakeFields : environ[f] = "set" THEN "env"
    ELSE "None"

\* the accounts of the credentials: a bare locator and an
\* organisation-account name with two '-'
Accounts == {<<"xy12345">>, <<"org", "-", "acct", "-", "1">>}

\* account.split('-')[0]
RECURSIVE SplitFirst(_)
SplitFirst(a) ==
    IF a = <<>> \/ Head(a) = "-" THEN <<>> ELSE <<Head(a)>> \o SplitFirst(Tail(a))

\* account.split('-')[-1]: the part after the last '-'
RECURSIVE SplitLast(_)
SplitLast(a) ==
    IF a = <<>> \/ a[Len(a)] = "-" THEN <<>>
    ELSE SplitLast(SubSeq(a, 1, Len(a) - 1)) \o <<a[Len(a)]>>

AccountLocatorLast(a) == SplitLast(a)

\* account_locator = account.split('-')[0] if '-' in account else account
AccountLocator(a) ==
    IF \E k \in 1..Len(a) : a[k] = "-" THEN SplitFirst(a) ELSE a

\* account_variations
AccountVariationsOf(a) ==
    << AccountLocator(a),
       AccountLocator(a) \o <<".us-east-1">>,
       AccountLocator(a) \o <<".us-west-2">>,
       AccountLocator(a) \o <<".eu-west-1">>,
       a >>

InitRun ==
    /\ WriterIdle
    /\ FlattenIdle
    /\ SqlIdle
    /\ ReadIdle
    /\ ListIdle
    /\ caller \in {"main", "task"}
    /\ load_raw \in BOOLEAN
    /\ load_normalized \in BOOLEAN
    /\ caller = "task" => load_raw /\ load_normalized
    /\ load_raw \/ load_normalized
    /\ \/ /\ aws_file \in [state : {"ok", "missing", "invalid"}, aws : [AwsFields -> FieldStates]]
          /\ aws_file.state # "ok" => aws_file.aws = AllSet(AwsFields)
          /\ sf_file = [state |-> "ok", snowflake |-> AllSet(SnowflakeFields)]
          /\ environ = AllSet(SnowflakeFields)
       \/ /\ aws_file = [state |-> "ok", aws |-> AllSet(AwsFields)]
          /\ sf_file \in [state : {"ok", "missing", "invalid"},
                          snowflake : NearlySet(SnowflakeFields)]
          /\ sf_file.state # "ok" => sf_file.snowflake = AllSet(SnowflakeFields)
          /\ environ \in NearlySet(SnowflakeFields)
    /\ account \in Accounts
    /\ RunFresh
    /\ FetchIdle
    /\ DagIdle
    /\ ConfigIdle

\* Step 1: df = self.read_json_files_pandas(); an empty frame ends run().
\* Without AWS configuration nothing else is done; with it the S3 client is
\* created (or fails to be), the bucket is listed and the objects are read.
RunReadFiles ==
    /\ runPc = "start"
    /\ aws_config' = LoadAwsConfig
    /\ IF LoadAwsConfig = "None"
         THEN /\ source' = "no_aws_config"
              /\ s3_client' = FALSE
         ELSE /\ source' \in {"client_fails", "list_fails", "list_empty", "items_fail", "data"}
              /\ s3_client' = (source' # "client_fails")
    /\ runPc' = IF source' = "data" THEN "creds" ELSE "returned"
    /\ UNCHANGED <<caller, load_raw, load_normalized, aws_file, sf_file, environ,
                   credentials, account, connect_attempts, conn, conn_account,
                   success, loads, raised,
                   report, closes, outcome>>
    /\ UNCHANGED outsideRun

\* Step 2: credentials = self.get_snowflake_credentials(); None ends run()
RunGetCredentials ==
    /\ runPc = "creds"
    /\ credentials' = GetSnowflakeCredentials
    /\ runPc' = IF credentials' = "None" THEN "returned" ELSE "connect"
    /\ UNCHANGED <<caller, load_raw, load_normalized, aws_file, sf_file, environ,
                   aws_config, s3_client, source, account, connect_attempts, conn,
                   conn_account, success,
                   loads, raised, report, closes, outcome>>
    /\ UNCHANGED outsideRun

\* connect_to_snowflake: one pass of `for acc in account_variations`, the
\* snowflake.connect for the next variation and the cursor of the connection
\* it returns; the first success ends the loop with True, an exception goes
\* on to the next variation and the fifth failure returns False
ConnectAttempt ==
    /\ runPc = "connect"
    /\ connect_attempts < Len(AccountVariationsOf(account))
    /\ connect_attempts' = connect_attempts + 1
    /\ \E ok \in BOOLEAN :
         IF ok THEN /\ conn' = "open"
                    /\ conn_account' = AccountVariationsOf(account)[connect_attempts']
                    /\ runPc' = "load_raw"
         ELSE /\ conn' = conn
              /\ conn_account' = conn_account
              /\ runPc' = IF connect_attempts' = Len(AccountVariationsOf(account))
                            THEN "returned" ELSE "connect"
    /\ UNCHANGED <<caller, load_raw, load_normalized, aws_file, sf_file, environ,
                   aws_config, s3_client, source, credentials, account, success, loads,
                   raised, report, closes, outcome>>
    /\ UNCHANGED outsideRun

\* one table of Step 3: normalize the frame and load it; the load function
\* returns True or False, the normalization may raise
\* without the try ... finally an exception leaves run() at once
AfterExceptionNoFinally == "raised"

\* try: ... finally: self.close_connection() -- an exception inside Step 3
\* goes through the finally clause
AfterException == "close"

LoadTable(tbl, wanted, next) ==
    /\ IF ~wanted
         THEN /\ runPc' = next
              /\ UNCHANGED <<success, loads, raised>>
         ELSE \E out \in {"True", "False", "raises"} :
                IF out = "raises"
                  THEN /\ raised' = TRUE
                       /\ runPc' = AfterException
                       /\ UNCHANGED <<success, loads>>
                  ELSE /\ loads' = Append(loads, [table |-> tbl, ret |-> out,
                                                  conn |-> conn,
                                                  account |-> conn_account])
                       /\ success' = ((out = "True") \/ success)
                       /\ runPc' = next
                       /\ UNCHANGED raised
    /\ UNCHANGED <<caller, load_raw, load_normalized, aws_file, sf_file, environ,
                   aws_config, s3_client, source, credentials, account,
                   connect_attempts, conn, conn_account, report, closes, outcome>>
    /\ UNCHANGED outsideRun

RunLoadRaw ==
    /\ runPc = "load_raw"
    /\ LoadTable("raw", load_raw, "load_normalized")

RunLoadNormalized ==
    /\ runPc = "load_normalized"
    /\ LoadTable("normalized", load_normalized, "report")

\* if success: print the success banner, else "No data was loaded."
RunReport ==
    /\ runPc = "report"
    /\ report' = IF success THEN "success" ELSE "no_data_loaded"
    /\ runPc' = "close"
    /\ UNCHANGED <<caller, load_raw, load_normalized, aws_file, sf_file, environ,
                   aws_config, s3_client, source, credentials, account,
                   connect_attempts, conn, conn_account, success, loads, raised,
                   closes, outcome>>
    /\ UNCHANGED outsideRun

\* finally: self.close_connection(); then run() returns None or the
\* exception of the normalization step goes on to the caller
RunClose ==
    /\ runPc = "close"
    /\ closes' = closes + 1
    /\ conn' = "closed"
    /\ runPc' = IF raised THEN "raised" ELSE "returned"
    /\ UNCHANGED <<caller, load_raw, load_normalized, aws_file, sf_file, environ,
                   aws_config, s3_client, source, credentials, account,
                   connect_attempts, conn_account, success, loads, raised, report,
                   outcome>>
    /\ UNCHANGED outsideRun

\* the caller after run(): main() returns and the script exits 0, or the
\* exception ends it with status 1; the task prints its success line and
\* ends, or fails with the exception
CallerEnds ==
    /\ runPc \in {"returned", "raised"}
    /\ outcome' = IF caller = "main"
                    THEN (IF runPc = "raised" THEN "exit_1" ELSE "exit_0")
                    ELSE (IF runPc = "raised" THEN "task_failed" ELSE "task_success")
    /\ runPc' = "exited"
    /\ UNCHANGED <<caller, load_raw, load_normalized, aws_file, sf_file, environ,
                   aws_config, s3_client, source, credentials, connect_attempts,
                   conn, conn_account, account, success, loads, raised, report, closes>>
    /\ UNCHANGED outsideRun

NextRun ==
    \/ RunReadFiles
    \/ RunGetCredentials
    \/ ConnectAttempt
    \/ RunLoadRaw
    \/ RunLoadNormalized
    \/ RunReport
    \/ RunClose
    \/ CallerEnds

SpecRun == InitRun /\ [][NextRun]_vars

-----------------------------------------------------------------------------
(* fetch_weather_task: the API key, the cities file and the AWS            *)
(* configuration are checked, then every city is fetched and saved.        *)

MaxCities == 3

InitFetch ==
    /\ WriterIdle
    /\ FlattenIdle
    /\ SqlIdle
    /\ ReadIdle
    /\ ListIdle
    /\ RunIdle
    /\ \E n \in 0..MaxCities : cities = [k \in 1..n |-> k]
    /\ fetch_setup \in [api_key : BOOLEAN, cities_file : BOOLEAN, aws : BOOLEAN]
    /\ FetchFresh
    /\ DagIdle
    /\ ConfigIdle

\* before the loop: no API key, no cities file, an empty city list or no AWS
\* configuration raises
FetchBegin ==
    /\ fetchPc = "start"
    /\ fetchPc' = IF /\ fetch_setup.api_key
                     /\ fetch_setup.cities_file
                     /\ cities # <<>>
                     /\ fetch_setup.aws
                    THEN "loop" ELSE "raised"
    /\ UNCHANGED <<cities, fetch_setup, fetchPos, fetched, successful, failed, s3_keys>>
    /\ UNCHANGED outsideFetch

City == cities[fetchPos + 1]

\* a city that fails and is not counted
FetchCityFailsUncounted ==
    /\ fetchPc = "loop"
    /\ fetchPos < Len(cities)
    /\ \E why \in {"no_data", "no_key", "exception"} :
         fetched' = Append(fetched, [city |-> City, outcome |-> why])
    /\ fetchPos' = fetchPos + 1
    /\ UNCHANGED <<cities, fetch_setup, successful, failed, s3_keys, fetchPc>>
    /\ UNCHANGED outsideFetch

\* get_weather returned data and save_raw_response_to_s3 a key
FetchCitySaved ==
    /\ fetchPc = "loop"
    /\ fetchPos < Len(cities)
    /\ fetched' = Append(fetched, [city |-> City, outcome |-> "saved"])
    /\ s3_keys' = Append(s3_keys, City)
    /\ successful' = successful + 1
    /\ fetchPos' = fetchPos + 1
    /\ UNCHANGED <<cities, fetch_setup, failed, fetchPc>>
    /\ UNCHANGED outsideFetch

\* get_weather returned nothing, the save returned no key, or either raised:
\* failed += 1 and the loop goes on
FetchCityFails ==
    /\ fetchPc = "loop"
    /\ fetchPos < Len(cities)
    /\ \E why \in {"no_data", "no_key", "exception"} :
         fetched' = Append(fetched, [city |-> City, outcome |-> why])
    /\ failed' = failed + 1
    /\ fetchPos' = fetchPos + 1
    /\ UNCHANGED <<cities, fetch_setup, successful, s3_keys, fetchPc>>
    /\ UNCHANGED outsideFetch

\* after the loop: the summary is printed; raise if successful == 0, else
\* return s3_keys
FetchEnd ==
    /\ fetchPc = "loop"
    /\ fetchPos = Len(cities)
    /\ fetchPc' = IF successful = 0 THEN "raised" ELSE "returned"
    /\ UNCHANGED <<cities, fetch_setup, fetchPos, fetched, successful, failed, s3_keys>>
    /\ UNCHANGED outsideFetch

NextFetch ==
    \/ FetchBegin
    \/ FetchCitySaved
    \/ FetchCityFails
    \/ FetchEnd

SpecFetch == InitFetch /\ [][NextFetch]_vars

-----------------------------------------------------------------------------
(* The DAG weather_data_pipeline: fetch_weather_data >> load_to_snowflake, *)
(* both PythonOperators with the default trigger rule (all upstream tasks  *)
(* succeeded) and default_args retries = 1.                                *)

MaxDagRuns == 2

Retries == 1

\* the reasons for which fetch_weather_task raises
FetchErrors == {"no_api_key", "no_cities_file", "no_cities", "no_aws_config", "zero_saved"}

\* a DAG run as the scheduler creates it: both task instances without state
NewDagRun ==
    [fetch |-> "none", fetch_tries |-> 0, fetch_error |-> "none",
     load |-> "none", load_tries |-> 0]

InitDag ==
    /\ WriterIdle
    /\ FlattenIdle
    /\ SqlIdle
    /\ ReadIdle
    /\ ListIdle
    /\ RunIdle
    /\ FetchIdle
    /\ dag_runs = <<>>
    /\ ConfigIdle

\* the schedule fires (every hour) and a DAG run is created
CreateDagRun ==
    /\ Len(dag_runs) < MaxDagRuns
    /\ dag_runs' = Append(dag_runs, NewDagRun)
    /\ UNCHANGED outsideDag

\* a try of a task instance may start when it has no state or waits for its retry
Startable(state) == state \in {"none", "up_for_retry"}

\* the state of a task instance whose try number `tries` raised
AfterRaise(tries) == IF tries <= Retries THEN "up_for_retry" ELSE "failed"

StartFetch(r) ==
    /\ Startable(dag_runs[r].fetch)
    /\ dag_runs' = [dag_runs EXCEPT ![r].fetch = "running",
                                    ![r].fetch_tries = @ + 1]
    /\ UNCHANGED outsideDag

\* fetch_weather_task returns s3_keys
FetchReturns(r) ==
    /\ dag_runs[r].fetch = "running"
    /\ dag_runs' = [dag_runs EXCEPT ![r].fetch = "success"]
    /\ UNCHANGED outsideDag

\* fetch_weather_task raises ValueError or FileNotFoundError
FetchRaises(r) ==
    /\ dag_runs[r].fetch = "running"
    /\ \E e \in FetchErrors :
         dag_runs' = [dag_runs EXCEPT ![r].fetch = AfterRaise(dag_runs[r].fetch_tries),
                                      ![r].fetch_error = e]
    /\ UNCHANGED outsideDag

\* the dependency test is missing: load_to_snowflake starts in any state of
\* fetch_weather_data
UpstreamDoneAlways(run) == TRUE

\* fetch_weather >> load_snowflake under the trigger rule all_success
UpstreamDone(run) == run.fetch = "success"

StartLoad(r) ==
    /\ Startable(dag_runs[r].load)
    /\ UpstreamDone(dag_runs[r])
    /\ dag_runs' = [dag_runs EXCEPT ![r].load = "running",
                                    ![r].load_tries = @ + 1]
    /\ UNCHANGED outsideDag

\* load_to_snowflake_task returns
LoadReturns(r) ==
    /\ dag_runs[r].load = "running"
    /\ dag_runs' = [dag_runs EXCEPT ![r].load = "success"]
    /\ UNCHANGED outsideDag

\* load_to_snowflake_task raises
LoadRaises(r) ==
    /\ dag_runs[r].load = "running"
    /\ dag_runs' = [dag_runs EXCEPT ![r].load = AfterRaise(dag_runs[r].load_tries)]
    /\ UNCHANGED outsideDag

\* the upstream task failed: the scheduler marks the downstream upstream_failed
SkipLoad(r) ==
    /\ dag_runs[r].load = "none"
    /\ dag_runs[r].fetch = "failed"
    /\ dag_runs' = [dag_runs EXCEPT ![r].load = "upstream_failed"]
    /\ UNCHANGED outsideDag

NextDag ==
    \/ CreateDagRun
    \/ \E r \in 1..Len(dag_runs) : StartFetch(r)
    \/ \E r \in 1..Len(dag_runs) : FetchReturns(r)
    \/ \E r \in 1..Len(dag_runs) : FetchRaises(r)
    \/ \E r \in 1..Len(dag_runs) : StartLoad(r)
    \/ \E r \in 1..Len(dag_runs) : LoadReturns(r)
    \/ \E r \in 1..Len(dag_runs) : LoadRaises(r)
    \/ \E r \in 1..Len(dag_runs) : SkipLoad(r)

SpecDag == InitDag /\ [][NextDag]_vars

-----------------------------------------------------------------------------
(* run() with the listing it makes: Step 1 with the AWS configuration      *)
(* loaded and the S3 client created, list_s3_json_files running as in      *)
(* SpecList, and the rest of run() as in SpecRun.                          *)

\* read_json_files_pandas after list_s3_json_files has returned json_files:
\* `if not json_files: return pd.DataFrame()`, else the objects are read
RunReadListed ==
    /\ runPc = "start"
    /\ listPc \in {"done", "failed"}
    /\ LoadAwsConfig # "None"
    /\ aws_config' = LoadAwsConfig
    /\ s3_client' = TRUE
    /\ IF listed = <<>>
         THEN source' = IF listPc = "failed" THEN "list_fails" ELSE "list_empty"
         ELSE source' \in {"items_fail", "data"}
    /\ runPc' = IF source' = "data" THEN "creds" ELSE "returned"
    /\ UNCHANGED <<caller, load_raw, load_normalized, aws_file, sf_file, environ,
                   credentials, account, connect_attempts, conn, conn_account,
                   success, loads, raised, report, closes, outcome>>
    /\ UNCHANGED outsideRun

NextRunList ==
    \/ ListPage
    \/ ListRaises
    \/ RunReadListed
    \/ RunGetCredentials
    \/ ConnectAttempt
    \/ RunLoadRaw
    \/ RunLoadNormalized
    \/ RunReport
    \/ RunClose
    \/ CallerEnds

SpecRunList == InitList /\ [][NextRunList]_vars

-----------------------------------------------------------------------------
(* update_bucket_config of update_aws_config.py on the file                *)
(* aws_config.json.  The file is [state, form, config]: state "missing",   *)
(* "invalid" (no JSON) or "ok"; form "as_written" for the text the user    *)
(* wrote and "indent_2" for the text json.dump(config, f, indent=2) writes;*)
(* config the parsed value: kind "dict" or "null" (a JSON value that is no *)
(* object), the value of its 'aws' key and of its 'snowflake' key.  The    *)
(* 'aws' value is absent, no object ("null") or an object whose five keys  *)
(* each are "absent" or hold a text.                                       *)

\* the configurations a valid file may hold
Configs ==
    {NoConfig}
    \cup {[kind |-> "dict", aws |-> [kind |-> a, keys |-> NoKeys], snowflake |-> s] :
            a \in {"absent", "null"}, s \in {"absent", "old"}}
    \cup {[kind |-> "dict", aws |-> [kind |-> "dict", keys |-> keys], snowflake |-> s] :
            keys \in [AwsKeys -> {"absent", "old"}], s \in {"absent", "old"}}

ConfigFiles ==
    {MissingFile, [state |-> "invalid", form |-> "as_written", config |-> NoConfig]}
    \cup {[state |-> "ok", form |-> "as_written", config |-> c] : c \in Configs}

InitConfig ==
    /\ WriterIdle
    /\ FlattenIdle
    /\ SqlIdle
    /\ ReadIdle
    /\ ListIdle
    /\ RunIdle
    /\ FetchIdle
    /\ DagIdle
    /\ config_file \in ConfigFiles
    /\ config_args \in [bucket_name : {"new-bucket"},
                        s3_prefix : {"None", "", "weather-data"},
                        region : {"None", "eu-west-1"}]
    /\ config_before = config_file
    /\ config_ret = "none"

\* `if s3_prefix:` -- an empty text counts as not given
GivenIfTruthy(arg) == arg \notin {"None", ""}

\* `if s3_prefix is not None`, `if region is not None`
Given(arg) == arg # "None"

\* the three assignments into config['aws']
UpdatedKeys(keys, args) ==
    [k \in AwsKeys |->
        IF k = "bucket_name" THEN args.bucket_name
        ELSE IF k = "s3_prefix" /\ Given(args.s3_prefix) THEN args.s3_prefix
        ELSE IF k = "region" /\ Given(args.region) THEN args.region
        ELSE keys[k]]

\* `if not config_file.exists(): return False`
UpdateFileMissing ==
    /\ config_ret = "none"
    /\ config_file.state = "missing"
    /\ config_ret' = "False"
    /\ UNCHANGED <<config_file, config_args, config_before>>
    /\ UNCHANGED outsideConfig

\* json.load raises JSONDecodeError; `'aws' not in config` holds, or raises
\* TypeError on a value that is no container; config['aws'].get raises
\* AttributeError on a value that is no object: each returns False before
\* the file is opened for writing
UpdateRejected ==
    /\ config_ret = "none"
    /\ config_file.state # "missing"
    /\ \/ config_file.state = "invalid"
       \/ config_file.config.kind # "dict"
       \/ config_file.config.aws.kind # "dict"
    /\ config_ret' = "False"
    /\ UNCHANGED <<config_file, config_args, config_before>>
    /\ UNCHANGED outsideConfig

\* the configuration is updated and written back
UpdateWrites ==
    /\ config_ret = "none"
    /\ config_file.state = "ok"
    /\ config_file.config.kind = "dict"
    /\ config_file.config.aws.kind = "dict"
    /\ config_file' =
         [config_file EXCEPT
            !.form = "indent_2",
            !.config.aws.keys = UpdatedKeys(config_file.config.aws.keys, config_args)]
    /\ config_ret' = "True"
    /\ UNCHANGED <<config_args, config_before>>
    /\ UNCHANGED outsideConfig

NextConfig ==
    \/ UpdateFileMissing
    \/ UpdateRejected
    \/ UpdateWrites

SpecConfig == InitConfig /\ [][NextConfig]_vars

-----------------------------------------------------------------------------
(* Properties of the chunked bulk-insert writer.                           *)

RECURSIVE ConcatRows(_)
ConcatRows(cs) == IF cs = <<>> THEN <<>> ELSE cs[1].rows \o ConcatRows(Tail(cs))

RECURSIVE Repeat(_, _)
Repeat(s, n) == IF n = 0 THEN <<>> ELSE s \o Repeat(s, n - 1)

NoInsertFailed == \A c \in 1..Len(calls) : calls[c].ok

LastInsertFailed == calls # <<>> /\ ~calls[Len(calls)].ok

\* 0-based index of the chunk whose insert failed (when LastInsertFailed)
FailedChunk == Len(calls) - 1

CallSizes == [c \in 1..Len(calls) |-> Len(calls[c].rows)]

\* C1: a load of N >= 1 rows with batch size B in which no insert fails issues
\* exactly ceil(N/B) insert calls, each of 1..B rows, and the rows of the calls
\* in issue order, concatenated, are the input sequence; while the load is under
\* way the calls issued so far carry a prefix of the input.
C1_Chunking ==
    /\ \A c \in 1..Len(calls) : Len(calls[c].rows) \in 1..batch_size
    /\ NoInsertFailed =>
         ConcatRows(calls) = SubSeq(df, 1, Len(ConcatRows(calls)))
    /\ (pc = "done" /\ Len(df) >= 1 /\ NoInsertFailed) =>
         /\ Len(calls) = CeilDiv(Len(df), batch_size)
         /\ ConcatRows(calls) = df

\* 12 rows, batch size 5 (12000 / 5000 scaled): calls of 5, 5 and 2 rows
C1_Witness ==
    /\ pc = "done" /\ ret = "true"
    /\ Len(df) = 12 /\ batch_size = 5
    /\ CallSizes = <<5, 5, 2>>

RowsOfChunks(n) == SubSeq(df, 1, Min(Len(df), n * batch_size))

C4_RerunAppends ==
    (pc = "done" /\ \A r \in 1..Len(rets) : rets[r] = "true") =>
      table = table0 \o Repeat(df, Len(rets))

C4_Witness ==
    /\ pc = "done" /\ rets = <<"true", "true">>
    /\ Len(df) >= 2 /\ table0 # <<>>
    /\ table = table0 \o df \o df

-----------------------------------------------------------------------------
(* Properties of the flatten engine, read on the state after one of the    *)
(* functions has been applied to the batch.                                *)

\* the value at the column's path has the documented type, or is absent
TypedAt(d, k) ==
    \/ d[k.path].t = "absent"
    \/ k.kind = "text" /\ d[k.path].t = "str"
    \/ k.kind = "int" /\ d[k.path].t = "num" /\ d[k.path].f = 0
    \/ k.kind = "float" /\ d[k.path].t = "num"

ContainersOk(d) == \A c \in Containers : d[c].t \in {"absent", "dict"}

WeatherOk(d) ==
    /\ d["weather"].t \in {"absent", "list"}
    /\ d["weather[0]"].t \in {"absent", "dict"}

\* a WeatherRecord of the documented shape in which any fields may be absent
WellTyped(d) ==
    /\ ContainersOk(d)
    /\ WeatherOk(d)
    /\ \A k \in 1..Len(Columns) : TypedAt(d, Columns[k])

AllWellTyped == \A r \in 1..Len(batch) : WellTyped(batch[r])

Flattened == op \in {"pandas_normalized", "sql_normalized"}

\* every numeric column the pandas normalizer reads is a column of the frame
CompleteFrame == ScalarDefaultPaths \subseteq FrameColumns(batch)

RowOf(r) == result.rows[r]

IsDefault(r, c) == RowOf(r)[c] = Default(ColumnOf(c).kind)

WeatherColumns == {"WEATHER_ID", "WEATHER_MAIN", "WEATHER_DESCRIPTION", "WEATHER_ICON"}

\* C5: for every WeatherRecord with an arbitrary subset of its optional fields
\* absent, a normalized row is produced with all 29 columns set, every absent
\* field's column at its documented default and no cell null/None/NaN.
C5_AbsentFieldsDefault ==
    (Flattened /\ AllWellTyped) =>
      /\ ~result.raised
      /\ Len(result.rows) = Len(batch)
      /\ \A r \in 1..Len(batch) : \A c \in ColumnNames :
           /\ RowOf(r)[c].t \in {"num", "str"}
           /\ batch[r][ColumnOf(c).path].t = "absent" => IsDefault(r, c)

\* C6: for a batch in which no document has some numeric source field (the
\* batch of the one document {} is such a batch), both pandas normalizers
\* finish without raising, and for {} every column is at its default.
C6_EmptyObjectNormalizes ==
    (op \in {"pandas_normalized", "pandas_raw"} /\ AllWellTyped /\ ~CompleteFrame) =>
      /\ ~result.raised
      /\ (batch = <<EmptyDoc>> /\ op = "pandas_normalized") =>
           \A c \in ColumnNames : IsDefault(1, c)
      /\ (batch = <<EmptyDoc>> /\ op = "pandas_raw") =>
           /\ RowOf(1).CITY_NAME = Str("Unknown")
           /\ RowOf(1).CITY_ID = Num(0, 0)
           /\ RowOf(1).COUNTRY_CODE = Str("")

\* C7: for every WeatherRecord whose weather is [] or absent the normalized row
\* has WEATHER_ID = 0 and WEATHER_MAIN, WEATHER_DESCRIPTION, WEATHER_ICON = "",
\* in the pandas normalizer and in the SQL-text generator.
C7_NoWeatherDefaults ==
    (Flattened /\ AllWellTyped) =>
      \A r \in 1..Len(batch) :
        (batch[r]["weather"] \in {Absent, List(0)}) =>
          /\ ~result.raised
          /\ \A c \in WeatherColumns : IsDefault(r, c)

\* weather is present and is no list, or is a list whose first element is no object
WeatherMalformed(d) ==
    \/ d["weather"].t \in {"dict", "str", "num"}
    \/ d["weather"].t = "list" /\ d["weather"].n > 0 /\ d["weather[0]"].t # "dict"

\* C8: for every WeatherRecord whose weather is present but no list, or a list
\* whose first element is no object, flattening does not raise and the four
\* WEATHER_* columns take their defaults, in the generator as in the pandas
\* normalizer.  Stated for documents that are otherwise of the documented shape
\* and for frames with every numeric column, so that what is decided is the
\* handling of weather alone.
C8_MalformedWeatherDefaults ==
    (Flattened /\ (op = "pandas_normalized" => CompleteFrame)) =>
      \A r \in 1..Len(batch) :
        ( /\ WeatherMalformed(batch[r])
          /\ \A q \in 1..Len(batch) :
               /\ ContainersOk(batch[q])
               /\ \A k \in 1..Len(Columns) : TypedAt(batch[q], Columns[k])
               /\ q # r => WeatherOk(batch[q]) ) =>
          /\ ~result.raised
          /\ \A c \in WeatherColumns : IsDefault(r, c)

NumericColumns == {c \in ColumnNames : ColumnOf(c).kind # "text"}

\* JSON null, or text that is no number
Uncoercible(a) == a.t = "null" \/ (a.t = "str" /\ ParseNumber(a.s) = NaN)

\* a document whose only departures from the documented shape are null
\* containers and numeric fields holding null or text
Coercible(d) ==
    /\ \A c \in Containers : d[c].t \in {"absent", "dict", "null"}
    /\ WeatherOk(d)
    /\ \A k \in 1..Len(Columns) :
         \/ TypedAt(d, Columns[k])
         \/ Columns[k].kind # "text" /\ d[Columns[k].path].t \in {"null", "str"}

\* C9: a numeric column whose source value is null or text that is no number is
\* written as 0 / 0.0 and nothing raises; under a null container (coord, main,
\* wind, clouds, sys) every column takes its default.  Stated for frames with
\* every numeric column.
C9_UncoercibleNumbersDefault ==
    ( /\ Flattened
      /\ op = "pandas_normalized" => CompleteFrame
      /\ \A r \in 1..Len(batch) : Coercible(batch[r]) ) =>
      /\ ~result.raised
      /\ \A r \in 1..Len(batch) : \A c \in ColumnNames :
           /\ (c \in NumericColumns /\ Uncoercible(batch[r][ColumnOf(c).path])) =>
                IsDefault(r, c)
           /\ (Parent(ColumnOf(c).path) \in Containers
                 /\ batch[r][Parent(ColumnOf(c).path)].t = "null") => IsDefault(r, c)

\* C10: every normalized column equals the value at its source path when that
\* value is present and of the documented type, and its default when the field
\* is absent; the London document gives CITY_NAME "London", CITY_ID 2643743,
\* COUNTRY_CODE "GB", TEMPERATURE 15.2, WEATHER_ID 800, WEATHER_MAIN "Clear",
\* PRESSURE 0, HUMIDITY 0.
C10_ColumnsFollowMapping ==
    (Flattened /\ AllWellTyped) =>
      /\ ~result.raised
      /\ \A r \in 1..Len(batch) : \A c \in ColumnNames :
           RowOf(r)[c] = IF batch[r][ColumnOf(c).path].t = "absent"
                           THEN Default(ColumnOf(c).kind)
                           ELSE batch[r][ColumnOf(c).path]
      /\ batch[1] = LondonDoc =>
           /\ RowOf(1)["CITY_NAME"] = Str("London")
           /\ RowOf(1)["CITY_ID"] = Num(2643743, 0)
           /\ RowOf(1)["COUNTRY_CODE"] = Str("GB")
           /\ RowOf(1)["TEMPERATURE"] = Num(15, 2)
           /\ RowOf(1)["WEATHER_ID"] = Num(800, 0)
           /\ RowOf(1)["WEATHER_MAIN"] = Str("Clear")
           /\ RowOf(1)["PRESSURE"] = Num(0, 0)
           /\ RowOf(1)["HUMIDITY"] = Num(0, 0)

\* What does hold of documents of the documented shape: the generator always,
\* and the pandas normalizer on a frame with every numeric column, produce one
\* row per document with every column at its source value or its default.
MappingHoldsOnCompleteFrames ==
    ( /\ Flattened
      /\ AllWellTyped
      /\ op = "pandas_normalized" => CompleteFrame ) =>
      /\ ~result.raised
      /\ Len(result.rows) = Len(batch)
      /\ \A r \in 1..Len(batch) : \A c \in ColumnNames :
           RowOf(r)[c] = IF batch[r][ColumnOf(c).path].t = "absent"
                           THEN Default(ColumnOf(c).kind)
                           ELSE batch[r][ColumnOf(c).path]

-----------------------------------------------------------------------------
(* Properties of the raw row.                                              *)

RawMade == op \in {"pandas_raw", "sql_variant"}

\* name, id, sys and sys.country are of the documented type, null or absent
\* (id may also be text that is no number)
LookupTyped(d) ==
    /\ d["name"].t \in {"absent", "null", "str"}
    /\ \/ d["id"].t \in {"absent", "null"}
       \/ d["id"].t = "num" /\ d["id"].f = 0
       \/ d["id"].t = "str" /\ ParseNumber(d["id"].s) = NaN
    /\ d["sys"].t \in {"absent", "null", "dict"}
    /\ d["sys.country"].t \in {"absent", "null", "str"}

OrElse(a, dflt) == IF a.t = "num" \/ (a.t = "str" /\ dflt.t = "str") THEN a ELSE dflt

\* C11: every document gives exactly one raw row, in source order, with
\* CITY_NAME = name ("Unknown" when absent or null), CITY_ID = id (0 when
\* absent, null or non-numeric) and COUNTRY_CODE = sys.country ("" when sys
\* or country is absent or null), in the pandas raw normalizer and in
\* generate_snowflake_insert_variant.
C11_RawLookupColumns ==
    (RawMade /\ \A r \in 1..Len(batch) : LookupTyped(batch[r])) =>
      /\ ~result.raised
      /\ Len(result.rows) = Len(batch)
      /\ \A r \in 1..Len(batch) :
           /\ RowOf(r).CITY_NAME = OrElse(batch[r]["name"], Str("Unknown"))
           /\ RowOf(r).CITY_ID = OrElse(batch[r]["id"], Num(0, 0))
           /\ RowOf(r).COUNTRY_CODE = OrElse(batch[r]["sys.country"], Str(""))

\* the lookup columns are as documented whenever the pandas raw normalizer
\* reads a frame that has an id column
RawLookupHoldsWithIdColumn ==
    (op = "pandas_raw" /\ "id" \in FrameColumns(batch)
        /\ \A r \in 1..Len(batch) : LookupTyped(batch[r])) =>
      /\ ~result.raised
      /\ Len(result.rows) = Len(batch)
      /\ \A r \in 1..Len(batch) :
           /\ RowOf(r).CITY_NAME = OrElse(batch[r]["name"], Str("Unknown"))
           /\ RowOf(r).CITY_ID = OrElse(batch[r]["id"], Num(0, 0))
           /\ RowOf(r).COUNTRY_CODE = OrElse(batch[r]["sys.country"], Str(""))

-----------------------------------------------------------------------------
(* Properties of the SQL text.                                             *)

\* the characters of the literal between its delimiters
Body(x) == SubSeq(x, 2, Len(x) - 1)

Embedded == sqlFn # "none"

\* C13: every text value embedded between single quotes, for each of the six
\* text columns and in each of the four functions that write a statement, has
\* every single quote in it doubled, so that the literal ends at its closing
\* quote and not before.
C13_QuotesDoubled ==
    (Embedded /\ sqlCol \in TextColumns) =>
      /\ Body(sqlLit) = ReplaceQuotes(sqlVal)
      /\ \A k \in 1..Len(Body(sqlLit)) :
           Body(sqlLit)[k] = "'" =>
             \E j \in {k - 1, k + 1} \cap (1..Len(Body(sqlLit))) : Body(sqlLit)[j] = "'"

\* in the two pandas load functions every text column is escaped
QuotesDoubledInLoaders ==
    (sqlFn \in {"load_dataframe_to_raw_table", "load_dataframe_to_normalized_table"}
        /\ sqlCol \in TextColumns) =>
      Body(sqlLit) = ReplaceQuotes(sqlVal)

HasQuoteAndNewline ==
    /\ \E k \in 1..Len(sqlVal) : sqlVal[k] = "'"
    /\ \E k \in 1..Len(sqlVal) : sqlVal[k] = "\n"

\* C14: a document whose text has a single quote and a newline is placed in
\* the raw-table INSERT so that the constant PARSE_JSON receives is exactly
\* json.dumps of the document, the literal ends where the code closed it (the
\* statement keeps its one tuple per document), and parsing that constant
\* gives the original document.
C14_QuoteAndNewlineRoundTrip ==
    (Embedded /\ sqlCol = "WEATHER_JSON" /\ HasQuoteAndNewline
        /\ Delimiter(JsonDumpsText(sqlVal)) = "$JSON$") =>
      /\ ReadLiteral(sqlLit).end = Len(sqlLit)
      /\ ReadLiteral(sqlLit).val = JsonDumpsText(sqlVal)
      /\ JsonLoadsText(ReadLiteral(sqlLit).val) = [ok |-> TRUE, val |-> sqlVal]

\* the same holds of the pandas raw loader
QuoteAndNewlineRoundTripInLoader ==
    (sqlFn = "load_dataframe_to_raw_table" /\ sqlCol = "WEATHER_JSON"
        /\ HasQuoteAndNewline /\ Delimiter(JsonDumpsText(sqlVal)) = "$JSON$") =>
      /\ ReadLiteral(sqlLit).end = Len(sqlLit)
      /\ ReadLiteral(sqlLit).val = JsonDumpsText(sqlVal)
      /\ JsonLoadsText(ReadLiteral(sqlLit).val) = [ok |-> TRUE, val |-> sqlVal]

-----------------------------------------------------------------------------
(* Properties of the source enumeration.                                   *)

Outcomes(o) == SelectSeq(attempts, LAMBDA a : a.outcome \in o)

Items(as) == [k \in 1..Len(as) |-> as[k].item]

\* C15: whatever items fail to read or to parse, the enumeration visits every
\* item of the listing once and in order, prints a reason for each failing
\* item and for no other, and returns exactly the documents of the items that
\* did not fail, in listing order.
C15_EnumerationSkipsFailures ==
    /\ readPc = "done" =>
         /\ Items(attempts) = json_files
         /\ readOut = Items(Outcomes({"ok"}))
         /\ printed = Items(Outcomes({"read", "parse"}))
    /\ readPc = "loop" => Items(attempts) = SubSeq(json_files, 1, readPos)

\* a read over more than one batch in which a failing item lies between two
\* good ones and a whole batch fails
C15_Witness ==
    /\ readPc = "done"
    /\ reader = "pandas"
    /\ json_batch_size = 1
    /\ Len(json_files) = 4
    /\ readOut = <<1, 3>>
    /\ printed = <<2, 4>>

-----------------------------------------------------------------------------
(* Properties of the S3 listing.                                           *)

\* every page before the last is truncated, has keys and names the next page
WellPaged ==
    \A k \in 1..(Len(s3_pages) - 1) :
        /\ s3_pages[k].truncated
        /\ s3_pages[k].token = k + 1
        /\ s3_pages[k].keys # <<>>

RECURSIVE KeysOfPages(_)
KeysOfPages(pages) ==
    IF pages = <<>> THEN <<>> ELSE Head(pages).keys \o KeysOfPages(Tail(pages))

-----------------------------------------------------------------------------
(* Properties of run().                                                    *)

AwsIncomplete ==
    \/ aws_file.state # "ok"
    \/ \E f \in AwsFields : aws_file.aws[f] \in {"absent", "empty"}

FileSupplies == sf_file.state = "ok" /\ \A f \in SnowflakeFields : sf_file.snowflake[f] = "set"

EnvSupplies == \A f \in SnowflakeFields : environ[f] = "set"

\* C17: with any of the three AWS fields absent or empty load_aws_config
\* gives None and no S3 client is created; get_snowflake_credentials gives
\* None unless the file, or else the environment, supplies all six fields
\* non-empty; and run() makes no connect attempt while credentials are None.
C17_NoConnectionOnIncompleteConfig ==
    /\ (AwsIncomplete /\ runPc # "start") => (aws_config = "None" /\ ~s3_client)
    /\ AwsIncomplete => ~s3_client
    /\ credentials \notin {"unset", "None"} =>
         /\ FileSupplies \/ EnvSupplies
         /\ credentials = "file" <=> FileSupplies
    /\ (credentials = "None" \/ credentials = "unset") =>
         (connect_attempts = 0 /\ conn = "none")
    /\ (credentials = "None") => ~(FileSupplies \/ EnvSupplies)

\* run() ended without credentials: the file has an empty password, the
\* environment lacks a variable, and no connect attempt was made
C17_Witness ==
    /\ runPc = "exited"
    /\ credentials = "None"
    /\ sf_file.state = "ok"
    /\ sf_file.snowflake["password"] = "empty"
    /\ environ["schema"] = "absent"
    /\ connect_attempts = 0
    /\ s3_client

\* run() ended with an empty bucket_name: no S3 client
C17_WitnessAws ==
    /\ runPc = "exited"
    /\ aws_file.state = "ok"
    /\ aws_file.aws["bucket_name"] = "empty"
    /\ aws_config = "None"
    /\ ~s3_client

\* the source or the sink could not be reached at all
Unreachable ==
    \/ source \in {"no_aws_config", "client_fails", "list_fails", "list_empty"}
    \/ credentials = "None"
    \/ connect_attempts = AccountVariations /\ conn = "none"

\* C19: when the source or the sink cannot be reached at all (no AWS
\* configuration, the listing fails or is empty, no credentials, every
\* connect attempt fails), run() raises, the script exits non-zero and the
\* task does not end as a successful task.
C19_UnreachableEndsInFailure ==
    Unreachable =>
      /\ runPc \notin {"returned"}
      /\ outcome \in {"none", "exit_1", "task_failed"}

-----------------------------------------------------------------------------
(* Properties of fetch_weather_task.                                       *)

LoopEnded == fetchPc \in {"returned", "raised"} /\ fetched # <<>>

Saved == SelectSeq(fetched, LAMBDA a : a.outcome = "saved")

\* C18: whatever the outcome of each city (no data, no key, an exception),
\* every city is attempted once and in list order, no failure stops the
\* loop, and when the loop ends successful + failed is the number of cities
\* and the returned list has exactly `successful` keys; the task raises only
\* if successful is 0.
C18_EveryCityCounted ==
    /\ [k \in 1..Len(fetched) |-> fetched[k].city] = SubSeq(cities, 1, fetchPos)
    /\ successful + failed = fetchPos
    /\ Len(s3_keys) = successful
    /\ s3_keys = [k \in 1..Len(Saved) |-> Saved[k].city]
    /\ LoopEnded => fetchPos = Len(cities)
    /\ fetchPc = "raised" => successful = 0
    /\ fetchPc = "returned" => successful > 0

\* three cities: the first fails, the second is saved, the third raises, and
\* the task returns one key
C18_Witness ==
    /\ fetchPc = "returned"
    /\ Len(cities) = 3
    /\ fetched[1].outcome = "no_data"
    /\ fetched[2].outcome = "saved"
    /\ fetched[3].outcome = "exception"
    /\ successful = 1
    /\ failed = 2
    /\ s3_keys = <<2>>

-----------------------------------------------------------------------------
(* What the writer hands back on failure.                                  *)

\* the chunk index and the row count a caller can read off the value a load
\* call returned: the value is a bool and names neither (-1)
ChunkReported(r) == IF r \in {"none", "true", "false"} THEN -1 ELSE r.chunk

RowsReported(r) == IF r \in {"none", "true", "false"} THEN -1 ELSE r.rows

\* C20: when a chunk insert fails, the value the load function returns names
\* the index of the failing chunk and the number of rows processed before
\* it, so that the caller can resume from that chunk.
C20_FailureContextReturned ==
    (pc = "done" /\ LastInsertFailed) =>
      /\ ChunkReported(ret) = FailedChunk
      /\ RowsReported(ret) = calls[Len(calls)].off

-----------------------------------------------------------------------------
(* The commit cadence of the Snowflake writer.                             *)

\* chunks whose loop iteration, the commit test included, is over
ChunksPassed ==
    IF pc = "commit" \/ LastInsertFailed THEN Len(calls) - 1 ELSE Len(calls)

\* commits issued inside the loop
LoopCommits == commits - (IF pc = "done" /\ ret = "true" THEN 1 ELSE 0)

InLoad == pc \in {"loop", "commit", "final", "except", "done"} /\ calls # <<>>

\* C21: in the Snowflake loader conn.commit() follows the chunk with 0-based
\* index j inside the loop exactly when j mod 10 = 0, and once more after the
\* last chunk: a load of C chunks without failure issues ceil(C/10) + 1
\* commits, and for C >= 2 fewer commits inside the loop than chunks.
C21_CommitCadence ==
    (loader = "snowflake" /\ InLoad) =>
      /\ LoopCommits = CeilDiv(ChunksPassed, 10)
      /\ (pc = "done" /\ ret = "true") =>
           /\ Len(calls) = CeilDiv(Len(df), batch_size)
           /\ commits = CeilDiv(Len(calls), 10) + 1
           /\ Len(calls) >= 2 => LoopCommits < Len(calls)

\* a load of 12 chunks: commits after chunks 0 and 10 and the final one
C21_Witness ==
    /\ loader = "snowflake"
    /\ pc = "done" /\ ret = "true"
    /\ Len(calls) = 12
    /\ commits = 3

\* chunks executed in the open transaction
UncommittedChunks == CeilDiv(Len(pending), batch_size)

\* C27: at every point of a Snowflake load at most 10 executed chunks are
\* uncommitted, so a failure discards at most 10 * batch size inserted rows;
\* after a load that returns True all N rows are committed.
C27_BoundedUncommitted ==
    loader = "snowflake" =>
      /\ UncommittedChunks <= 10
      /\ Len(pending) <= 10 * batch_size
      /\ (pc = "done" /\ ret = "true") =>
           /\ pending = <<>>
           /\ table = callStart \o df

\* chunk 10 has been executed and the commit that follows it is still to
\* come: the ten chunks 1..10 are uncommitted, chunk 0 is committed
C27_Witness ==
    /\ loader = "snowflake"
    /\ pc = "commit"
    /\ Len(calls) = 11
    /\ UncommittedChunks = 10
    /\ Len(table) = Len(callStart) + batch_size

-----------------------------------------------------------------------------
(* Properties of the DAG.                                                  *)

LoadStarted(run) == run.load_tries > 0

\* every allowed attempt of fetch_weather_data raised
FetchExhausted(run) == run.fetch = "failed" /\ run.fetch_tries = Retries + 1

\* C22: in every DAG run load_to_snowflake has started only if
\* fetch_weather_data has finished successfully in that run, and in a run
\* whose fetch_weather_task raised on every attempt load_to_snowflake has
\* not started.
C22_LoadAfterSuccessfulFetch ==
    \A r \in 1..Len(dag_runs) :
      /\ LoadStarted(dag_runs[r]) => dag_runs[r].fetch = "success"
      /\ dag_runs[r].load \notin {"none", "upstream_failed"} => LoadStarted(dag_runs[r])
      /\ dag_runs[r].fetch = "failed" =>
           /\ FetchExhausted(dag_runs[r])
           /\ ~LoadStarted(dag_runs[r])
           /\ dag_runs[r].load \in {"none", "upstream_failed"}

\* one run whose fetch raised twice (zero cities saved) and whose load was
\* marked upstream_failed, next to a run whose load ran after a fetch that
\* succeeded on its retry
C22_Witness ==
    \E r, q \in 1..Len(dag_runs) :
      /\ FetchExhausted(dag_runs[r])
      /\ dag_runs[r].fetch_error = "zero_saved"
      /\ dag_runs[r].load = "upstream_failed"
      /\ dag_runs[q].fetch = "success"
      /\ dag_runs[q].fetch_tries = 2
      /\ dag_runs[q].load = "success"

\* the account identifiers of the snowflake.connect calls made so far
TriedAccounts == SubSeq(AccountVariationsOf(account), 1, connect_attempts)

\* the identifiers the claim lists, for a locator
ClaimedOrder(locator, full) ==
    << locator, locator \o <<".us-east-1">>, locator \o <<".us-west-2">>,
       locator \o <<".eu-west-1">>, full >>

\* the part of the account before its first '-' (the whole account without one)
BeforeFirstDash(a) ==
    LET dashes == {k \in 1..Len(a) : a[k] = "-"}
    IN  IF dashes = {} THEN a
        ELSE SubSeq(a, 1, (CHOOSE k \in dashes : \A d \in dashes : k <= d) - 1)

ConnectReturnedTrue == conn # "none"

ConnectReturnedFalse == runPc = "returned" /\ connect_attempts > 0 /\ conn = "none"

\* C23: connect_to_snowflake tries [locator, locator.us-east-1,
\* locator.us-west-2, locator.eu-west-1, full account] in this order, the
\* locator being the part of the account before the first '-'; it makes at
\* most 5 attempts, the first successful attempt ends it with conn made from
\* that attempt, and it returns False only after 5 failed attempts, with no
\* connection stored.
C23_ConnectVariations ==
    /\ connect_attempts <= 5
    /\ TriedAccounts =
         SubSeq(ClaimedOrder(BeforeFirstDash(account), account), 1, connect_attempts)
    /\ ConnectReturnedTrue =>
         /\ connect_attempts >= 1
         /\ conn_account = TriedAccounts[connect_attempts]
         /\ runPc # "connect"
    /\ runPc = "connect" => conn = "none" /\ connect_attempts < 5
    /\ ConnectReturnedFalse =>
         /\ connect_attempts = 5
         /\ conn_account = "none"

\* the organisation-account name connected at its third variation
C23_Witness ==
    /\ account = <<"org", "-", "acct", "-", "1">>
    /\ connect_attempts = 3
    /\ conn = "open"
    /\ conn_account = <<"org", ".us-west-2">>

\* all five variations of the same account failed
C23_WitnessFalse ==
    /\ account = <<"org", "-", "acct", "-", "1">>
    /\ ConnectReturnedFalse
    /\ TriedAccounts[5] = account

\* the delimiter text occurs in the text
Occurs(delimiter, text) == \E k \in 1..Len(text) : text[k] = delimiter

\* C24: the delimiter that load_dataframe_to_raw_table puts around a
\* WEATHER_JSON text does not occur in the text, so the literal ends only at
\* its closing delimiter.
C24_DelimiterAbsentFromText ==
    (sqlFn = "load_dataframe_to_raw_table" /\ sqlCol = "WEATHER_JSON") =>
      /\ ~Occurs(Delimiter(JsonDumpsText(sqlVal)), JsonDumpsText(sqlVal))
      /\ ReadLiteral(sqlLit).end = Len(sqlLit)

\* with a text that holds neither delimiter text, or only one, it does not
DelimiterAbsentUnlessBothOccur ==
    (sqlFn = "load_dataframe_to_raw_table" /\ sqlCol = "WEATHER_JSON"
        /\ ~(Occurs("$JSON$", sqlVal) /\ Occurs("$WEATHER_JSON$", sqlVal))) =>
      /\ ~Occurs(Delimiter(JsonDumpsText(sqlVal)), JsonDumpsText(sqlVal))
      /\ ReadLiteral(sqlLit).end = Len(sqlLit)

NoRepeat(s) == \A a, b \in 1..Len(s) : a # b => s[a] # s[b]

\* the page each request was answered with
PagesRequested == [k \in 1..Len(requests) |-> IF requests[k] = 0 THEN 1 ELSE requests[k]]

\* C25: whatever the store answers, a truncated response without
\* NextContinuationToken and a truncated page without Contents included,
\* list_s3_json_files makes at most one request per page of the listing and
\* then returns; it requests no page twice and returns no key twice.
C25_ListingTerminates ==
    /\ NoRepeat(PagesRequested)
    /\ NoRepeat(listed)
    /\ Len(requests) <= Len(s3_pages)
    /\ (Len(requests) = Len(s3_pages)) => listPc \in {"done", "failed"}

\* a truncated page without Contents ends the loop
TruncatedWithoutContentsEnds ==
    (requests # <<>> /\ listPc # "failed"
        /\ s3_pages[PagesRequested[Len(requests)]].keys = <<>>) => listPc = "done"

-----------------------------------------------------------------------------
(* Properties of run() with its listing.                                   *)

\* the keys the pages answered before the last request held
CollectedBeforeRaise ==
    JsonKeys(KeysOfPages([k \in 1..(Len(requests) - 1) |-> s3_pages[PagesRequested[k]]]))

NoWarehouseCall ==
    /\ credentials = "unset"
    /\ connect_attempts = 0
    /\ conn = "none"
    /\ loads = <<>>
    /\ closes = 0

\* C26: if a page request of list_s3_json_files raises, on the first page or
\* a later one, the function returns the empty list and the keys of the
\* earlier pages are dropped; run() then ends at its empty frame: no object
\* is read and no warehouse call is made.
C26_ListingFailureReadsNothing ==
    listPc = "failed" =>
      /\ listed = <<>>
      /\ source \in {"none", "list_fails"}
      /\ runPc \in {"start", "returned", "exited"}
      /\ ~raised
      /\ NoWarehouseCall
      /\ outcome \in {"none", "exit_0"}

\* the request for the second page raised after the first page had given
\* two keys, and run() has returned
C26_Witness ==
    /\ listPc = "failed"
    /\ Len(requests) = 2
    /\ Len(CollectedBeforeRaise) >= 1
    /\ source = "list_fails"
    /\ runPc = "returned"

-----------------------------------------------------------------------------
(* Properties of run()'s report and of its connection.                     *)

\* C28: run() prints the 'Data loading completed successfully' outcome only
\* if every requested table load returned True; when a requested load
\* returned False the run is reported as not successful.
C28_SuccessOnlyIfAllLoadsTrue ==
    report # "none" =>
      /\ report = "success" => \A k \in 1..Len(loads) : loads[k].ret = "True"
      /\ (\E k \in 1..Len(loads) : loads[k].ret = "False") => report = "no_data_loaded"

\* the banner is printed exactly when some load returned True
SuccessIffSomeLoadTrue ==
    report # "none" =>
      (report = "success" <=> \E k \in 1..Len(loads) : loads[k].ret = "True")

RunExited == runPc \in {"returned", "raised", "exited"}

\* C29: once connect_to_snowflake has returned True inside run(),
\* close_connection is called exactly once before run() exits, whether both
\* loads succeed, a load returns False or a step raises; every load runs on
\* the one open connection of the run, and none runs after the close.
C29_ClosedExactlyOnce ==
    conn # "none" =>
      /\ closes <= 1
      /\ conn = "open" <=> closes = 0
      /\ RunExited => closes = 1 /\ conn = "closed"
      /\ \A k \in 1..Len(loads) :
           /\ loads[k].conn = "open"
           /\ loads[k].account = conn_account

\* the raw load returned False, the normalization for the second table
\* raised, and run() has left through the finally clause
C29_Witness ==
    /\ runPc = "raised"
    /\ raised
    /\ closes = 1
    /\ conn = "closed"
    /\ Len(loads) = 1
    /\ loads[1].ret = "False"

\* both loads ran and run() returned
C29_WitnessReturned ==
    /\ runPc = "returned"
    /\ closes = 1
    /\ Len(loads) = 2

-----------------------------------------------------------------------------
(* Properties of update_bucket_config.                                     *)

\* the value the claim gives to key k of 'aws' after a successful update
ClaimedValue(k) ==
    IF k = "bucket_name" THEN config_args.bucket_name
    ELSE IF k = "s3_prefix" /\ config_args.s3_prefix # "None" THEN config_args.s3_prefix
    ELSE IF k = "region" /\ config_args.region # "None" THEN config_args.region
    ELSE config_before.config.aws.keys[k]

NoAwsKey == config_before.config.kind = "dict" /\ config_before.config.aws.kind = "absent"

\* C30: update_bucket_config changes in the stored configuration only
\* aws.bucket_name, aws.s3_prefix when s3_prefix is not None and aws.region
\* when region is not None, every other key of 'aws' and every key outside it
\* keeps its value; with the file missing, no valid JSON or without an 'aws'
\* key it returns False and leaves the file as it was.
C30_OnlyBucketSettingsChange ==
    config_ret # "none" =>
      /\ (config_before.state \in {"missing", "invalid"} \/ NoAwsKey) => config_ret = "False"
      /\ config_ret = "False" => config_file = config_before
      /\ config_ret = "True" =>
           /\ config_file.state = "ok"
           /\ config_file.config.kind = "dict"
           /\ config_file.config.snowflake = config_before.config.snowflake
           /\ config_file.config.aws.kind = "dict"
           /\ \A k \in AwsKeys : config_file.config.aws.keys[k] = ClaimedValue(k)

\* an empty prefix was given and no region: the prefix is replaced by the
\* empty text, the region and the two credentials keep their values
C30_Witness ==
    /\ config_ret = "True"
    /\ config_args.s3_prefix = ""
    /\ config_args.region = "None"
    /\ config_before.config.aws.keys = [k \in AwsKeys |-> "old"]
    /\ config_before.config.snowflake = "old"
    /\ config_file.config.aws.keys["s3_prefix"] = ""
    /\ config_file.config.aws.keys["region"] = "old"
    /\ config_file.config.aws.keys["access_key_id"] = "old"

\* a file without 'aws' key was left as it was
C30_WitnessNoAws ==
    /\ config_ret = "False"
    /\ NoAwsKey
    /\ config_file = config_before

====
